---- MODULE Spec2Model ----
(***************************************************************************)
(* A model of pyxact's context-propagation and multi-table transaction     *)
(* protocol: field descriptors resolving their value against a context     *)
(* dictionary, rows and row lists, and the SQLTransaction operations       *)
(* (_insert_existing, _insert_new, _update, _delete, _context_select)      *)
(* running against a DB-API cursor.                                        *)
(*                                                                         *)
(* Python values are tagged pairs so that an int, the text of an int and   *)
(* None never compare equal: <<"int", n>>, <<"str", n>> (the decimal text  *)
(* of n), <<"text", k>> (text that is no numeral) and <<"none", 0>>.       *)
(***************************************************************************)
EXTENDS Integers, Sequences, FiniteSets, TLC

\* ------------------------------------------------------------------------
\* Bounds of the model
\* ------------------------------------------------------------------------
MaxRows == 2        \* rows held by the first SQLRecordList member at Init
MaxSeq == 1         \* _insert_new is not taken once the sequence has passed this
MaxCount == 3       \* an enumerator is not read once its counter has reached this

\* ------------------------------------------------------------------------
\* Python values
\* ------------------------------------------------------------------------
None == <<"none", 0>>
PyInt(n) == <<"int", n>>
PyStr(n) == <<"str", n>>
PyText(k) == <<"text", k>>
PyFloat(k) == <<"float", k>>
Absent == <<"absent", 0>>      \* "key not in dict"; never a stored value

IsInt(v) == v[1] = "int"
IsStr(v) == v[1] \in {"str", "text"}

\* Python truthiness of a value, as used by "if tmp:" and "if pk_value:"
Truthy(v) ==
  CASE v[1] = "none" -> FALSE
    [] v[1] = "int" -> v[2] # 0
    [] OTHER -> TRUE

\* sqliteDialect.sql_repr on int, str and None: returned unchanged
SqlRepr(v) ==
  CASE v[1] \in {"int", "str", "text", "none"} -> v
    [] OTHER -> v

\* ------------------------------------------------------------------------
\* Field descriptors
\* ------------------------------------------------------------------------
NoCtx == "-"
StartingNumber == 1

IntField(ctx) == [kind |-> "int", ctx |-> ctx, nullable |-> TRUE, start |-> 0]
NotNullIntField(ctx) == [kind |-> "int", ctx |-> ctx, nullable |-> FALSE, start |-> 0]
RowEnumIntField(ctx, s) == [kind |-> "enum", ctx |-> ctx, nullable |-> TRUE, start |-> s]
SequenceIntField == [kind |-> "seq", ctx |-> NoCtx, nullable |-> TRUE, start |-> 0]

\* Outcome of an operation on one field
Ok(v) == [err |-> "none", val |-> v]
Raise(e) == [err |-> e, val |-> None]

\* AbstractIntField.convert
Convert(v) ==
  CASE v[1] = "int" -> Ok(v)
    [] v[1] = "str" -> Ok(PyInt(v[2]))
    [] v[1] = "text" -> Raise("ValueError")
    [] OTHER -> Raise("TypeError")

\* A __set__ that lets None into a field that is not nullable
FieldSetNullAccepted(f, v) ==
  IF v = None THEN Ok(None)
  ELSE IF IsInt(v) THEN Ok(v) ELSE Convert(v)

\* SQLField.__set__: the value that would be stored, or the error raised
FieldSet(f, v) ==
  IF v = None
    THEN IF f.nullable THEN Ok(None) ELSE Raise("TypeError")
    ELSE IF IsInt(v) THEN Ok(v) ELSE Convert(v)

\* A context dictionary is a function from the context keys to a value or Absent
ContextKeys == {"tid", "ref", "row_id"}
EmptyContext == [k \in ContextKeys |-> Absent]
HasKey(context, k) == context[k] # Absent

\* Result of get_context on one field of one instance:
\*   err, ret (value returned), stored (instance's value afterwards), context
GC(e, r, s, c) == [err |-> e, ret |-> r, stored |-> s, context |-> c]

\* A get_context that keeps a value set by hand instead of taking the
\* dictionary's (used to show what the context-consistency property detects)
PlainGetContextKeepingStored(f, stored, context) ==
  IF f.ctx = NoCtx \/ stored # None THEN GC("none", stored, stored, context)
  ELSE IF HasKey(context, f.ctx) THEN GC("none", context[f.ctx], context[f.ctx], context)
  ELSE GC("ContextRequiredError", None, stored, context)

\* A get_context that falls back on the instance's value when the dictionary
\* lacks the field's key (used to show what the missing-context property
\* detects)
PlainGetContextLenient(f, stored, context) ==
  LET Adopt(set) ==
        IF set.err = "none" THEN GC("none", context[f.ctx], set.val, context)
        ELSE GC(set.err, None, stored, context)
  IN IF f.ctx = NoCtx THEN GC("none", stored, stored, context)
     ELSE IF HasKey(context, f.ctx) THEN Adopt(FieldSet(f, context[f.ctx]))
     ELSE GC("none", stored, stored, context)

\* A get_context that, for a key the dictionary lacks, enters the instance's
\* value under it (used to show what the frame property detects)
PlainGetContextSettingDefault(f, stored, context) ==
  LET Adopt(set) ==
        IF set.err = "none" THEN GC("none", context[f.ctx], set.val, context)
        ELSE GC(set.err, None, stored, context)
  IN IF f.ctx = NoCtx THEN GC("none", stored, stored, context)
     ELSE IF HasKey(context, f.ctx) THEN Adopt(FieldSet(f, context[f.ctx]))
     ELSE GC("none", stored, stored, [context EXCEPT ![f.ctx] = stored])

\* SQLField.get_context
PlainGetContext(f, stored, context) ==
  LET Adopt(set) ==
        IF set.err = "none" THEN GC("none", context[f.ctx], set.val, context)
        ELSE GC(set.err, None, stored, context)
  IN IF f.ctx = NoCtx THEN GC("none", stored, stored, context)
     ELSE IF HasKey(context, f.ctx) THEN Adopt(FieldSet(f, context[f.ctx]))
     ELSE GC("ContextRequiredError", None, stored, context)

\* A counter that stays where it is
NotIncremented(v) == v

\* "context[key] += 1" on an int or a float (PyFloat(k) stands for k + 0.5)
Incremented(v) == << v[1], v[2] + 1 >>

\* An enumerator that does not write the number it gave back to the dictionary
EnumGetContextUnrecorded(f, stored, context) ==
  IF HasKey(context, f.ctx)
    THEN IF context[f.ctx][1] \in {"int", "float"}
           THEN GC("none", Incremented(context[f.ctx]), Incremented(context[f.ctx]), context)
           ELSE GC("TypeError", None, stored, context)
    ELSE GC("none", PyInt(f.start), PyInt(f.start), context)

\* RowEnumIntField.get_context
EnumGetContext(f, stored, context) ==
  LET Count(n) == GC("none", n, n, [context EXCEPT ![f.ctx] = n])
  IN IF HasKey(context, f.ctx)
       THEN IF context[f.ctx][1] \in {"int", "float"} THEN Count(Incremented(context[f.ctx]))
            ELSE GC("TypeError", None, stored, context)
       ELSE Count(PyInt(f.start))

GetContext(f, stored, context) ==
  IF f.kind = "enum" THEN EnumGetContext(f, stored, context)
  ELSE PlainGetContext(f, stored, context)

\* SQLField.get
Get(f, stored, context) == GC("none", stored, stored, context)

\* "if context: ... field_obj.get_context(self, context) else: field_obj.get(self)"
\* (an empty dictionary is false)
GetContextIfAny(f, stored, context) ==
  IF context = EmptyContext THEN Get(f, stored, context)
  ELSE GetContext(f, stored, context)

\* ------------------------------------------------------------------------
\* The schema: four SQLTable subclasses and one SQLTransaction subclass
\*   class Hdr(SQLTable):   tid = IntField(context_used='tid'); val = IntField()
\*                          pk = PrimaryKeyConstraint(column_names=('tid',))
\*   class Aux(SQLTable):   tid = IntField(context_used='tid')
\*                          ref = IntField(context_used='ref'); pk on (tid)
\*   class Jrn(SQLTable):   tid = IntField(context_used='tid')
\*                          row_id = RowEnumIntField(context_used='row_id')
\*                          amount = IntField(); pk on (tid, row_id)
\*   class Note(SQLTable):  as Jrn, in its own table
\*   class Txn(SQLTransaction):
\*       tid = SequenceIntField(sequence=tid_seq); ref = IntField()
\*       r1 = SQLTransactionField(Hdr);  r2 = SQLTransactionField(Aux)
\*       l1 = SQLTransactionField(JrnList); l2 = SQLTransactionField(NoteList)
\* ------------------------------------------------------------------------
RecordNames == <<"r1", "r2">>                 \* cls._records, in declaration order
RecordListNames == <<"l1", "l2">>             \* cls._recordlists, in declaration order
Members == {"r1", "r2", "l1", "l2"}
ContextFieldNames == <<"tid", "ref">>         \* cls._context_fields, in declaration order

ContextFieldOf(name) == IF name = "tid" THEN SequenceIntField ELSE IntField(NoCtx)

Fields(m) ==
  CASE m = "r1" -> << IntField("tid"), IntField(NoCtx) >>
    [] m = "r2" -> << IntField("tid"), IntField("ref") >>
    [] m = "l1" -> << IntField("tid"), RowEnumIntField("row_id", StartingNumber), IntField(NoCtx) >>
    [] m = "l2" -> << IntField("tid"), RowEnumIntField("row_id", StartingNumber), IntField(NoCtx) >>
    [] m = "nokey" -> << IntField("tid"), IntField(NoCtx) >>

\* cls._primary_key.column_names, as positions in Fields(m); "nokey" is a
\* SQLTable declared without a PrimaryKeyConstraint (cls._primary_key is None)
PrimaryKey(m) ==
  IF m \in {"r1", "r2"} THEN <<1>> ELSE IF m = "nokey" THEN << >> ELSE <<1, 2>>

InSeq(x, s) == \E i \in 1..Len(s) : s[i] = x

\* A row instance is the sequence of its stored values; a SQLTransactionField
\* attribute that was never assigned holds Python None, written Unset.
Unset == << >>
NewRow(m) == [i \in 1..Len(Fields(m)) |-> None]       \* record_type()

\* ------------------------------------------------------------------------
\* Resolving the fields of a row against a context dictionary
\* ------------------------------------------------------------------------
\* State threaded through a resolution: err, row (stored values), context,
\* vals (values returned so far)
Resolution(row, context) == [err |-> "none", row |-> row, context |-> context, vals |-> << >>]

\* One field read: its outcome g folded into the resolution
Resolved(acc, i, g, v) ==
  [err |-> g.err,
   row |-> [acc.row EXCEPT ![i] = g.stored],
   context |-> g.context,
   vals |-> IF g.err = "none" THEN Append(acc.vals, v) ELSE acc.vals]

AllIdx(m) == [i \in 1..Len(Fields(m)) |-> i]

\* SQLRecord.values_sql_repr(context): every field in declaration order,
\* "dialect.sql_repr(field.get_context(self, context))"
RECURSIVE ResolveFields(_, _, _)
ResolveFields(m, idxs, acc) ==
  LET i == Head(idxs)
      Read(g) == Resolved(acc, i, g, SqlRepr(g.ret))
  IN IF idxs = << >> \/ acc.err # "none" THEN acc
     ELSE ResolveFields(m, Tail(idxs),
                        Read(GetContext(Fields(m)[i], acc.row[i], acc.context)))

ValuesSqlRepr(m, row, context) == ResolveFields(m, AllIdx(m), Resolution(row, context))

\* The non-key fields of _update_sql: as values_sql_repr, under "if context:"
RECURSIVE ResolveIfAny(_, _, _, _)
ResolveIfAny(m, idxs, acc, any) ==
  LET i == Head(idxs)
      Read(g) == Resolved(acc, i, g, SqlRepr(g.ret))
  IN IF idxs = << >> \/ acc.err # "none" THEN acc
     ELSE ResolveIfAny(m, Tail(idxs),
                       Read(IF any THEN GetContext(Fields(m)[i], acc.row[i], acc.context)
                            ELSE Get(Fields(m)[i], acc.row[i], acc.context)),
                       any)

\* A primary-key value that is false raises UnconstrainedWhereError
KeyRead(g) ==
  IF g.err = "none" /\ ~Truthy(g.ret) THEN [g EXCEPT !.err = "UnconstrainedWhereError"]
  ELSE g

\* A _pk_items that reads the stored values whatever the dictionary holds
RECURSIVE PkItemsStored(_, _, _, _)
PkItemsStored(m, idxs, acc, any) ==
  LET i == Head(idxs)
      Read(g) == Resolved(acc, i, g, g.ret)
  IN IF idxs = << >> \/ acc.err # "none" THEN acc
     ELSE PkItemsStored(m, Tail(idxs),
                        Read(KeyRead(Get(Fields(m)[i], acc.row[i], acc.context))), any)

\* SQLTable._pk_items(context): the primary-key columns, in key order
RECURSIVE PkItems(_, _, _, _)
PkItems(m, idxs, acc, any) ==
  LET i == Head(idxs)
      Read(g) == Resolved(acc, i, g, g.ret)
  IN IF idxs = << >> \/ acc.err # "none" THEN acc
     ELSE PkItems(m, Tail(idxs),
                  Read(KeyRead(IF any THEN GetContext(Fields(m)[i], acc.row[i], acc.context)
                               ELSE Get(Fields(m)[i], acc.row[i], acc.context))),
                  any)

NonPkIdx(m) == SelectSeq(AllIdx(m), LAMBDA i : ~InSeq(i, PrimaryKey(m)))

MapSqlRepr(vals) == [i \in 1..Len(vals) |-> SqlRepr(vals[i])]

NoSql(e, row, context) ==
  [err |-> e, row |-> row, context |-> context, set |-> << >>, pk |-> << >>]

\* SQLTable._update_sql(context): [err, row, context, set (SET values), pk (WHERE values)]
UpdateSql(m, row, context) ==
  LET any == context # EmptyContext
      Both(k, u) == [err |-> u.err, row |-> u.row, context |-> u.context,
                     set |-> u.vals, pk |-> MapSqlRepr(k.vals)]
      Keyed(k) ==
        IF k.err # "none" THEN NoSql(k.err, k.row, k.context)
        ELSE Both(k, ResolveIfAny(m, NonPkIdx(m), Resolution(k.row, k.context), any))
  IN IF PrimaryKey(m) = << >> THEN NoSql("UnconstrainedWhereError", row, context)
     ELSE Keyed(PkItems(m, PrimaryKey(m), Resolution(row, context), any))

\* SQLTable._delete_sql(context): [err, row, context, set (unused), pk (WHERE values)]
DeleteSql(m, row, context) ==
  LET Keyed(k) == [err |-> k.err, row |-> k.row, context |-> k.context,
                   set |-> << >>, pk |-> MapSqlRepr(k.vals)]
  IN IF PrimaryKey(m) = << >> THEN NoSql("UnconstrainedWhereError", row, context)
     ELSE Keyed(PkItems(m, PrimaryKey(m), Resolution(row, context), context # EmptyContext))

\* SQLTable._context_select_sql(context, allow_unlimited): the positions of the
\* fields whose context key is in the dictionary, in declaration order
\* (the WHERE columns), and the values compared with
WhereIdx(m, context) ==
  SelectSeq(AllIdx(m), LAMBDA i : Fields(m)[i].ctx # NoCtx /\ HasKey(context, Fields(m)[i].ctx))

WhereVals(m, context, cols) ==
  [j \in 1..Len(cols) |-> SqlRepr(context[Fields(m)[cols[j]].ctx])]

\* A _context_select_sql without the allow_unlimited test
ContextSelectSqlUnlimited(m, context, allow_unlimited) ==
  [err |-> "none", cols |-> WhereIdx(m, context),
   vals |-> WhereVals(m, context, WhereIdx(m, context))]

ContextSelectSql(m, context, allow_unlimited) ==
  IF ~allow_unlimited /\ WhereIdx(m, context) = << >>
    THEN [err |-> "UnconstrainedWhereError", cols |-> << >>, vals |-> << >>]
    ELSE [err |-> "none", cols |-> WhereIdx(m, context),
          vals |-> WhereVals(m, context, WhereIdx(m, context))]

\* ------------------------------------------------------------------------
\* The database behind the cursor: one table per member's SQLTable, rows in
\* insertion order, with its PRIMARY KEY constraint enforced, and the
\* table-backed sequence of sqliteDialect: the rows of its table, each with
\* the columns start, interval, lastval, nextval
\* ------------------------------------------------------------------------
SeqStart == 1
SeqInterval == 1
EmptyDb == [m \in Members |-> << >>]

\* SQLSequence.create: "CREATE TABLE IF NOT EXISTS", then an INSERT of
\* (start, interval, start, start) whether or not the table held a row
SeqCreate(table, start, interval) ==
  Append(table, [start |-> start, interval |-> interval,
                 lastval |-> start, nextval |-> start])

\* "UPDATE ... SET lastval=nextval, nextval=nextval+interval;" (every row)
SeqAdvance(table) ==
  [i \in 1..Len(table) |-> [table[i] EXCEPT !.lastval = table[i].nextval,
                                            !.nextval = table[i].nextval + table[i].interval]]

\* "SELECT lastval FROM ...;" and "cursor.fetchone()[0]"
SeqLastval(table) == table[1].lastval

\* A reset that leaves nextval as it is
SeqResetLastvalOnly(table) ==
  [i \in 1..Len(table) |-> [table[i] EXCEPT !.lastval = table[i].start]]

\* SQLSequence.reset: "UPDATE ... SET lastval=start, nextval=start;" (every row)
SeqReset(table) ==
  [i \in 1..Len(table) |-> [table[i] EXCEPT !.lastval = table[i].start,
                                            !.nextval = table[i].start]]

CreatedSequence == SeqCreate(<< >>, SeqStart, SeqInterval)

KeyOf(m, vals) == [j \in 1..Len(PrimaryKey(m)) |-> vals[PrimaryKey(m)[j]]]

\* INSERT INTO t (...) VALUES (...): the table afterwards, or IntegrityError
DbInsert(table, m, vals) ==
  IF \E i \in 1..Len(table) : KeyOf(m, table[i]) = KeyOf(m, vals)
    THEN [err |-> "IntegrityError", table |-> table]
    ELSE [err |-> "none", table |-> Append(table, vals)]

\* executemany of the INSERT: row by row, stopping at the first error
RECURSIVE DbInsertMany(_, _, _)
DbInsertMany(d, m, batch) ==
  IF batch = << >> \/ d.err # "none" THEN d
  ELSE DbInsertMany(DbInsert(d.table, m, Head(batch)), m, Tail(batch))

\* UPDATE t SET (non-key columns) = set WHERE (key columns) = pk
DbUpdate(table, m, set, pk) ==
  [i \in 1..Len(table) |->
     IF KeyOf(m, table[i]) = pk
       THEN [c \in 1..Len(Fields(m)) |->
               IF InSeq(c, PrimaryKey(m)) THEN table[i][c]
               ELSE set[CHOOSE j \in 1..Len(NonPkIdx(m)) : NonPkIdx(m)[j] = c]]
       ELSE table[i]]

\* DELETE FROM t WHERE (key columns) = pk
DbDelete(table, m, pk) == SelectSeq(table, LAMBDA r : KeyOf(m, r) # pk)

\* SELECT ... FROM t WHERE cols = vals: the matching rows in table order
DbSelect(table, cols, vals) ==
  SelectSeq(table, LAMBDA r : \A j \in 1..Len(cols) : r[cols[j]] = vals[j])

\* One call on the cursor, as it appears in the statement log
Stmt(kind, member, params, batch) ==
  [kind |-> kind, member |-> member, params |-> params, batch |-> batch]

\* ------------------------------------------------------------------------
\* Execution of one SQLTransaction operation.  The running state is
\*   txn      the instance: fields (context fields) and mem (members)
\*   context  the context dictionary of this execution
\*   db, seq  the database and the sequence behind the cursor
\*   log      the calls made on the cursor, in order
\*   err, msg the exception being raised ("none" while running) and its message
\* Every step leaves a state that is already raising untouched.
\* ------------------------------------------------------------------------
Running(st) == st.err = "none"
Fail(st, e) == [st EXCEPT !.err = e]
Logged(st, stmt) == [st EXCEPT !.log = Append(@, stmt)]

Start(t, d, q) ==
  [txn |-> t, context |-> EmptyContext, db |-> d, seq |-> q, log |-> << >>,
   err |-> "none", msg |-> "none"]

\* sqliteDialect.begin_transaction
BeginTransaction(st, iso) ==
  IF iso = "MANUAL_TRANSACTIONS" THEN st
  ELSE Logged(st, Stmt("BEGIN", "-", << >>, << >>))

\* TransactionContext.__exit__ for the context manager begin_transaction returned;
\* the database rolls back to (db0, seq0), its state at BEGIN
ExitTransaction(st, iso, db0, seq0) ==
  IF iso = "MANUAL_TRANSACTIONS" THEN st
  ELSE IF Running(st) THEN Logged(st, Stmt("COMMIT", "-", << >>, << >>))
  ELSE [st EXCEPT !.log = Append(@, Stmt("ROLLBACK", "-", << >>, << >>)),
                  !.db = db0, !.seq = seq0]

\* SQLSequence.nextval with sqliteDialect.nextval_sequence_sql
Nextval(st) ==
  [st EXCEPT !.seq = SeqAdvance(@),
             !.log = @ \o << Stmt("UPDATE_SEQ", "tid_seq", << >>, << >>),
                             Stmt("SELECT_SEQ", "tid_seq", << >>, << >>) >>]

\* SequenceIntField.update: "value = self.sequence.nextval(cursor)", stored, returned
SequenceUpdate(st, name) ==
  LET Store(s) == [st |-> [s EXCEPT !.txn.fields[name] = PyInt(SeqLastval(s.seq))],
                   val |-> PyInt(SeqLastval(s.seq))]
  IN Store(Nextval(st))

\* A refresh that draws from the sequence as update does
RefreshAsUpdate(st, name) ==
  IF ContextFieldOf(name).kind = "seq" THEN SequenceUpdate(st, name)
  ELSE [st |-> st, val |-> st.txn.fields[name]]

\* SQLField.refresh without a query: the stored value
FieldRefresh(st, name) == [st |-> st, val |-> st.txn.fields[name]]

\* SQLField.update (refresh) and SequenceIntField.update
FieldUpdate(st, name) ==
  IF ContextFieldOf(name).kind = "seq" THEN SequenceUpdate(st, name)
  ELSE FieldRefresh(st, name)

\* "if tmp: result[field_name] = tmp"
WithEntry(st, name, v) ==
  IF Truthy(v) THEN [st EXCEPT !.context[name] = v] ELSE st

\* SQLTransaction._get_context
RECURSIVE GetPlainContext(_, _)
GetPlainContext(st, names) ==
  LET Entry(g) == IF g.err = "none" THEN WithEntry(st, Head(names), g.ret)
                  ELSE Fail(st, g.err)
  IN IF names = << >> \/ ~Running(st) THEN st
     ELSE GetPlainContext(Entry(PlainGetContext(ContextFieldOf(Head(names)),
                                                st.txn.fields[Head(names)], st.context)),
                          Tail(names))

\* SQLTransaction._get_refreshed_context
RECURSIVE GetRefreshedContext(_, _)
GetRefreshedContext(st, names) ==
  LET Entry(r) == WithEntry(r.st, Head(names), r.val)
  IN IF names = << >> \/ ~Running(st) THEN st
     ELSE GetRefreshedContext(Entry(FieldRefresh(st, Head(names))), Tail(names))

\* SQLTransaction._get_updated_context
RECURSIVE GetUpdatedContext(_, _)
GetUpdatedContext(st, names) ==
  LET Entry(r) == WithEntry(r.st, Head(names), r.val)
  IN IF names = << >> \/ ~Running(st) THEN st
     ELSE GetUpdatedContext(Entry(FieldUpdate(st, Head(names))), Tail(names))

\* What a hook may return
Returns == {"True", "False", "None", "str"}

\* A hook gate written "if not status:", which lets a string through
HookGateTruthy(st, status) ==
  IF ~Running(st) \/ status \in {"True", "str"} THEN st
  ELSE Fail(st, "VerificationError")

\* A hook gate written "if status == False or isinstance(status, str):",
\* which lets None through
HookGateNotFalse(st, status) ==
  IF ~Running(st) \/ status \in {"True", "None"} THEN st
  ELSE IF status = "str" THEN [st EXCEPT !.err = "VerificationError", !.msg = "str"]
  ELSE Fail(st, "VerificationError")

\* "status = hook(...); if status != True: raise VerificationError(status if str)"
HookGate(st, status) ==
  IF ~Running(st) \/ status = "True" THEN st
  ELSE IF status = "str" THEN [st EXCEPT !.err = "VerificationError", !.msg = "str"]
  ELSE Fail(st, "VerificationError")

\* "if not self._verify(): raise VerificationError"
VerifyGate(st, verified) ==
  IF ~Running(st) \/ verified \in {"True", "str"} THEN st
  ELSE Fail(st, "VerificationError")

\* The database's answer d to a statement on member m's table
Executed(st, m, d) == [st EXCEPT !.db[m] = d.table, !.err = d.err]

\* cursor.execute of an INSERT
ExecInsert(st, m, vals) ==
  Executed(Logged(st, Stmt("INSERT", m, vals, << >>)), m, DbInsert(st.db[m], m, vals))

\* cursor.executemany of an INSERT
ExecInsertMany(st, m, batch) ==
  Executed(Logged(st, Stmt("INSERTMANY", m, << >>, batch)), m,
           DbInsertMany([err |-> "none", table |-> st.db[m]], m, batch))

\* The instance after member m was resolved as r (row or rows, context, err)
Adopted(st, m, mem, r) == [st EXCEPT !.txn.mem[m] = mem, !.context = r.context, !.err = r.err]

\* "cursor.execute(*record._insert_sql(context))" for one SQLRecord member
InsertRecord(st, m) ==
  LET Send(s1, vals) == IF Running(s1) THEN ExecInsert(s1, m, vals) ELSE s1
      Sql(r) == Send(Adopted(st, m, r.row, r), r.vals)
  IN Sql(ValuesSqlRepr(m, st.txn.mem[m], st.context))

\* "for record_name in self._records: ..."; a member that is None is passed over
RECURSIVE InsertRecords(_, _)
InsertRecords(st, names) ==
  IF names = << >> \/ ~Running(st) THEN st
  ELSE InsertRecords(IF st.txn.mem[Head(names)] = Unset THEN st
                     ELSE InsertRecord(st, Head(names)),
                     Tail(names))

\* SQLRecordList._values_sql_repr(context): [err, rows, context, batch]
RECURSIVE ListValuesSqlRepr(_, _, _)
ListValuesSqlRepr(m, i, acc) ==
  LET Row(r) == [err |-> r.err,
                 rows |-> [acc.rows EXCEPT ![i] = r.row],
                 context |-> r.context,
                 batch |-> IF r.err = "none" THEN Append(acc.batch, r.vals) ELSE acc.batch]
  IN IF i > Len(acc.rows) \/ acc.err # "none" THEN acc
     ELSE ListValuesSqlRepr(m, i + 1, Row(ValuesSqlRepr(m, acc.rows[i], acc.context)))

\* "cursor.executemany(command, recordlist._values_sql_repr(context))"
InsertRecordList(st, m) ==
  LET Send(s1, batch) == IF Running(s1) THEN ExecInsertMany(s1, m, batch) ELSE s1
      Sql(r) == Send(Adopted(st, m, r.rows, r), r.batch)
  IN Sql(ListValuesSqlRepr(m, 1, [err |-> "none", rows |-> st.txn.mem[m],
                                  context |-> st.context, batch |-> << >>]))

\* The SQLRecordList members taken last first
RECURSIVE InsertRecordListsLastFirst(_, _)
InsertRecordListsLastFirst(st, names) ==
  LET Then(rest) == IF Running(rest) THEN InsertRecordList(rest, Head(names)) ELSE rest
  IN IF names = << >> \/ ~Running(st) THEN st
     ELSE Then(InsertRecordListsLastFirst(st, Tail(names)))

\* "for recordlist_name in self._recordlists: ..."
RECURSIVE InsertRecordLists(_, _)
InsertRecordLists(st, names) ==
  IF names = << >> \/ ~Running(st) THEN st
  ELSE InsertRecordLists(InsertRecordList(st, Head(names)), Tail(names))

\* cursor.execute of the UPDATE or DELETE that sql describes
ExecWrite(st, m, kind, sql) ==
  IF kind = "UPDATE"
    THEN [Logged(st, Stmt("UPDATE", m, sql.set \o sql.pk, << >>))
            EXCEPT !.db[m] = DbUpdate(@, m, sql.set, sql.pk)]
    ELSE [Logged(st, Stmt("DELETE", m, sql.pk, << >>))
            EXCEPT !.db[m] = DbDelete(@, m, sql.pk)]

\* "cursor.execute(*(record._update_sql(context)))" or "..._delete_sql(context)"
\* for one row: the state afterwards and the row as resolved
WriteOne(st, m, row, kind) ==
  LET Send(s1, sql) == IF Running(s1) THEN ExecWrite(s1, m, kind, sql) ELSE s1
      Sql(u) == [row |-> u.row,
                 st |-> Send([st EXCEPT !.context = u.context, !.err = u.err], u)]
  IN Sql(IF kind = "UPDATE" THEN UpdateSql(m, row, st.context)
         ELSE DeleteSql(m, row, st.context))

\* "for record in recordlist: cursor.execute(...)": the rows of one list, in list order
RECURSIVE WriteRows(_, _, _, _)
WriteRows(st, m, i, kind) ==
  LET Keep(w) == [w.st EXCEPT !.txn.mem[m][i] = w.row]
  IN IF i > Len(st.txn.mem[m]) \/ ~Running(st) THEN st
     ELSE WriteRows(Keep(WriteOne(st, m, st.txn.mem[m][i], kind)), m, i + 1, kind)

\* A traversal in declaration order
NotReversed(s) == s

\* reversed(list(...))
Reversed(s) == [i \in 1..Len(s) |-> s[Len(s) + 1 - i]]

\* "for recordlist_name in reversed(list(self._recordlists)): ..."; names is
\* the order of traversal
RECURSIVE WriteRecordLists(_, _, _)
WriteRecordLists(st, names, kind) ==
  IF names = << >> \/ ~Running(st) THEN st
  ELSE WriteRecordLists(WriteRows(st, Head(names), 1, kind), Tail(names), kind)

\* "for record_name in reversed(list(self._records)): ..."
RECURSIVE WriteRecords(_, _, _)
WriteRecords(st, names, kind) ==
  LET Keep(w) == [w.st EXCEPT !.txn.mem[Head(names)] = w.row]
  IN IF names = << >> \/ ~Running(st) THEN st
     ELSE WriteRecords(IF st.txn.mem[Head(names)] = Unset THEN st
                       ELSE Keep(WriteOne(st, Head(names), st.txn.mem[Head(names)], kind)),
                       Tail(names), kind)

\* SQLRecord.set_values(values) / SQLRecord.__init__(*args): every field
\* assigned through its descriptor, in declaration order: [err, row]
RECURSIVE SetValues(_, _, _, _)
SetValues(m, row, vals, i) ==
  LET Assign(a) == IF a.err # "none" THEN [err |-> a.err, row |-> row]
                   ELSE SetValues(m, [row EXCEPT ![i] = a.val], vals, i + 1)
  IN IF i > Len(Fields(m)) THEN [err |-> "none", row |-> row]
     ELSE Assign(FieldSet(Fields(m)[i], vals[i]))

\* "for field_name, value in kwargs.items(): if field_name not in
\* self._fields: raise ValueError(...); setattr(self, field_name, value)".
\* kwargs is the sequence of <<name, value>> in the order the caller wrote
\* them; a name is the position of the field in Fields(m), and 0 is a name
\* the type does not have.
MaxKeywords == 2
RECURSIVE SetKeywords(_, _, _, _)
SetKeywords(m, row, kwargs, i) ==
  LET Assign(a, name) ==
        IF a.err # "none" THEN [err |-> a.err, row |-> row]
        ELSE SetKeywords(m, [row EXCEPT ![name] = a.val], kwargs, i + 1)
  IN IF i > Len(kwargs) THEN [err |-> "none", row |-> row]
     ELSE IF kwargs[i][1] \notin 1..Len(Fields(m))
          THEN [err |-> "ValueError", row |-> row]
     ELSE Assign(FieldSet(Fields(m)[kwargs[i][1]], kwargs[i][2]), kwargs[i][1])

\* SQLRecord.set_values(values=None, **kwargs) as a caller uses it: "if
\* values:" (an empty tuple counts as no values), the count test before the
\* first assignment, "elif kwargs:", "else: raise ValueError"
SetValuesCall(m, row, values, kwargs) ==
  IF values # << >>
  THEN IF Len(values) # Len(Fields(m)) THEN [err |-> "ValueError", row |-> row]
       ELSE SetValues(m, row, values, 1)
  ELSE IF kwargs # << >> THEN SetKeywords(m, row, kwargs, 1)
  ELSE [err |-> "ValueError", row |-> row]

\* SQLRecord.clear()
Clear(m, row) == SetValues(m, row, NewRow(m), 1)

\* A read-back that drops the row it fetched
FetchedDropped(m, record, found) == Clear(m, record)

\* "if nextrow: record._set_values(nextrow) else: record._clear()"
Fetched(m, record, found) ==
  IF found # << >> THEN SetValues(m, record, found[1], 1) ELSE Clear(m, record)

\* The SELECT q on member m's table, logged, and its rows handed to Load
SelectInto(st, m, q, loaded) ==
  IF q.err # "none" THEN Fail(st, q.err)
  ELSE [Logged(st, Stmt("SELECT", m, q.vals, << >>))
          EXCEPT !.txn.mem[m] = loaded.row, !.err = loaded.err]

\* One SQLRecord member of _context_select, holding record when the SELECT is built
SelectRecord(st, m, record, q) ==
  SelectInto([st EXCEPT !.txn.mem[m] = record], m, q,
             Fetched(m, record, DbSelect(st.db[m], q.cols, q.vals)))

RECURSIVE SelectRecords(_, _, _)
SelectRecords(st, names, allow_unlimited) ==
  IF names = << >> \/ ~Running(st) THEN st
  ELSE SelectRecords(
         SelectRecord(st, Head(names),
                      IF st.txn.mem[Head(names)] = Unset THEN NewRow(Head(names))
                      ELSE st.txn.mem[Head(names)],
                      ContextSelectSql(Head(names), st.context, allow_unlimited)),
         Tail(names), allow_unlimited)

\* "while nextrow: recordlist._append(record_type(*nextrow))": [err, row (the rows)]
RECURSIVE AppendFetched(_, _, _)
AppendFetched(m, acc, found) ==
  LET Built(a) == IF a.err # "none" THEN [err |-> a.err, row |-> acc.row]
                  ELSE [err |-> "none", row |-> Append(acc.row, a.row)]
  IN IF found = << >> \/ acc.err # "none" THEN acc
     ELSE AppendFetched(m, Built(SetValues(m, NewRow(m), Head(found), 1)), Tail(found))

\* A _context_select that appends to what the list already holds
SelectRecordListAccumulating(st, m, q) ==
  SelectInto(st, m, q,
             AppendFetched(m, [err |-> "none", row |-> st.txn.mem[m]],
                           DbSelect(st.db[m], q.cols, q.vals)))

\* One SQLRecordList member of _context_select
SelectRecordList(st, m, q) ==
  SelectInto([st EXCEPT !.txn.mem[m] = << >>], m, q,
             AppendFetched(m, [err |-> "none", row |-> << >>],
                           DbSelect(st.db[m], q.cols, q.vals)))

RECURSIVE SelectRecordLists(_, _, _)
SelectRecordLists(st, names, allow_unlimited) ==
  IF names = << >> \/ ~Running(st) THEN st
  ELSE SelectRecordLists(
         SelectRecordList(st, Head(names),
                          ContextSelectSql(Head(names), st.context, allow_unlimited)),
         Tail(names), allow_unlimited)

\* SQLRecord.get_context(): the truthy stored values of the context-using
\* fields of one row, merged into the dictionary
RECURSIVE ContextValuesStored(_, _, _, _)
ContextValuesStored(m, row, i, context) ==
  IF i > Len(Fields(m)) THEN context
  ELSE ContextValuesStored(m, row, i + 1,
         IF Fields(m)[i].ctx # NoCtx /\ Truthy(row[i])
           THEN [context EXCEPT ![Fields(m)[i].ctx] = row[i]]
           ELSE context)

RECURSIVE ContextFromRows(_, _, _, _)
ContextFromRows(m, rows, i, context) ==
  IF i > Len(rows) THEN context
  ELSE ContextFromRows(m, rows, i + 1, ContextValuesStored(m, rows[i], 1, context))

\* SQLTransaction._get_context_from_records
GetContextFromRecords(t) ==
  ContextFromRows("l2", t.mem["l2"], 1,
    ContextFromRows("l1", t.mem["l1"], 1,
      ContextValuesStored("r2", t.mem["r2"], 1,
        ContextValuesStored("r1", t.mem["r1"], 1, EmptyContext))))

\* "for field in self._context_fields: if field in context: setattr(...)"
RECURSIVE BackFill(_, _, _)
BackFill(st, names, context) ==
  LET Assign(a) == IF a.err = "none" THEN [st EXCEPT !.txn.fields[Head(names)] = a.val]
                   ELSE Fail(st, a.err)
  IN IF names = << >> \/ ~Running(st) THEN st
     ELSE BackFill(IF ~HasKey(context, Head(names)) THEN st
                   ELSE Assign(FieldSet(ContextFieldOf(Head(names)), context[Head(names)])),
                   Tail(names), context)

\* SQLTransaction._post_select_hook, returning status
PostSelectHook(st, status) ==
  IF ~Running(st) THEN st
  ELSE HookGate(BackFill(st, ContextFieldNames, GetContextFromRecords(st.txn)), status)

\* ------------------------------------------------------------------------
\* The five operations: the state in which each one ends (returning when
\* err = "none", raising err otherwise).  hook and verified are what the
\* hook and _verify return when called.
\* ------------------------------------------------------------------------
\* SQLTransaction._insert_existing
InsertExistingRun(t, d, q, iso, hook, verified) ==
  LET s0 == BeginTransaction(Start(t, d, q), iso)
      s1 == GetPlainContext(s0, ContextFieldNames)
      s2 == VerifyGate(HookGate(s1, hook), verified)
      s3 == InsertRecords(s2, RecordNames)
      s4 == InsertRecordLists(s3, RecordListNames)
  IN ExitTransaction(s4, iso, d, q)

\* SQLTransaction._insert_new
InsertNewRun(t, d, q, iso, hook, verified) ==
  LET s0 == BeginTransaction(Start(t, d, q), iso)
      s1 == GetUpdatedContext(s0, ContextFieldNames)
      s2 == VerifyGate(HookGate(s1, hook), verified)
      s3 == InsertRecords(s2, RecordNames)
      s4 == InsertRecordLists(s3, RecordListNames)
  IN ExitTransaction(s4, iso, d, q)

\* SQLTransaction._update
UpdateRun(t, d, q, iso, hook, verified) ==
  LET s0 == BeginTransaction(Start(t, d, q), iso)
      s1 == GetPlainContext(s0, ContextFieldNames)
      s2 == VerifyGate(HookGate(s1, hook), verified)
      s3 == WriteRecordLists(s2, Reversed(RecordListNames), "UPDATE")
      s4 == WriteRecords(s3, Reversed(RecordNames), "UPDATE")
  IN ExitTransaction(s4, iso, d, q)

\* SQLTransaction._delete
DeleteRun(t, d, q, iso, hook, verified) ==
  LET s0 == BeginTransaction(Start(t, d, q), iso)
      s1 == GetPlainContext(s0, ContextFieldNames)
      s2 == VerifyGate(HookGate(s1, hook), verified)
      s3 == WriteRecordLists(s2, Reversed(RecordListNames), "DELETE")
      s4 == WriteRecords(s3, Reversed(RecordNames), "DELETE")
  IN ExitTransaction(s4, iso, d, q)

\* SQLTransaction._context_select: _verify runs after the with block
ContextSelectRun(t, d, q, iso, allow_unlimited, hook, verified) ==
  LET s0 == BeginTransaction(Start(t, d, q), iso)
      s1 == GetRefreshedContext(s0, ContextFieldNames)
      s2 == SelectRecords(s1, RecordNames, allow_unlimited)
      s3 == SelectRecordLists(s2, RecordListNames, allow_unlimited)
      s4 == PostSelectHook(s3, hook)
  IN VerifyGate(ExitTransaction(s4, iso, d, q), verified)

\* ------------------------------------------------------------------------
\* Objects and references: a transaction x with one SQLRecord member r and
\* one SQLRecordList member l, a second name y (unbound, "y = x" or
\* "y = x._copy()"), and the list methods called through either name.
\*   rows   the SQLRecord objects: their type and the value of their field;
\*          the last one is an instance of another SQLRecord subclass
\*   lists  the SQLRecordList objects: the references in their _records
\*   txns   the SQLTransaction objects: tid, r (0 is None), l
\*   y      the transaction object y names, 0 while unbound
\*   last   the last call: op, who (the object called), bad (a value of the
\*          other type was passed), err, idx, ret
\* ------------------------------------------------------------------------
MaxObj == 4
MaxLen == 2

NoObjects ==
  [rows |-> [i \in 1..(MaxObj + 1) |->
               IF i = MaxObj + 1 THEN [type |-> "Note", val |-> 1]
               ELSE [type |-> "free", val |-> 0]],
   lists |-> [i \in 1..2 |-> [live |-> FALSE, items |-> << >>]],
   txns |-> [k \in 1..2 |-> [live |-> FALSE, tid |-> 0, r |-> 0, l |-> 1]],
   y |-> 0,
   last |-> [op |-> "none", who |-> 1, bad |-> FALSE, err |-> "none", idx |-> 0,
             ret |-> << >>]]

\* Objects no reference leads to are freed (reference counting)
Collect(h) ==
  LET kept == { k \in 1..2 : k = 1 \/ h.y = k }
      held == { h.txns[k].l : k \in kept }
      used == { h.txns[k].r : k \in kept }
                \cup UNION { { h.lists[j].items[n] : n \in 1..Len(h.lists[j].items) } : j \in held }
  IN [h EXCEPT
        !.txns = [k \in 1..2 |-> IF k \in kept THEN h.txns[k] ELSE NoObjects.txns[k]],
        !.lists = [j \in 1..2 |-> IF j \in held THEN h.lists[j] ELSE NoObjects.lists[j]],
        !.rows = [i \in 1..(MaxObj + 1) |->
                    IF i \in used \/ i = MaxObj + 1 THEN h.rows[i] ELSE NoObjects.rows[i]]]

\* The argument of a call: a new instance of the list's record type holding
\* val ("record_type(val)"), or for val = 0 the instance of the other type.
\* "isinstance(value, self._record_type)" is the test of its type being "Jrn".
Passing(h, val) ==
  LET new == CHOOSE i \in 1..MaxObj :
               /\ h.rows[i].type = "free"
               /\ \A j \in 1..MaxObj : h.rows[j].type = "free" => i <= j
  IN IF val = 0 THEN [h |-> h, id |-> MaxObj + 1]
     ELSE [h |-> [h EXCEPT !.rows[new] = [type |-> "Jrn", val |-> val]], id |-> new]

\* The instances built for a call that takes several: "[record_type(v), ...]"
RECURSIVE PassingAll(_, _, _)
PassingAll(h, vals, acc) ==
  LET Into(p) == PassingAll(p.h, Tail(vals), Append(acc, p.id))
  IN IF vals = << >> THEN [h |-> h, ids |-> acc]
     ELSE Into(Passing(h, Head(vals)))

\* A copy that shares the member objects of the original
TxnCopyShallow(h) ==
  [h EXCEPT !.txns[2] = [h.txns[1] EXCEPT !.live = TRUE], !.y = 2]

\* SQLTransaction._copy: context fields by value, "value._copy()" for the
\* members (SQLRecord.copy, SQLRecordList._copy: a new object for every row,
\* holding the same value)
TxnCopy(h) ==
  LET free == CHOOSE j \in 1..2 : ~h.lists[j].live
      CopyRows(g, ids) ==
        PassingAll(g, [j \in 1..Len(ids) |-> g.rows[ids[j]].val], << >>)
      WithList(p, r) ==
        [p.h EXCEPT !.lists[free] = [live |-> TRUE, items |-> p.ids],
                    !.txns[2] = [live |-> TRUE, tid |-> h.txns[1].tid, r |-> r, l |-> free],
                    !.y = 2]
      WithRecord(p) ==
        WithList(CopyRows(p.h, h.lists[h.txns[1].l].items), p.ids[1])
  IN IF h.txns[1].r = 0
       THEN WithList(CopyRows(h, h.lists[h.txns[1].l].items), 0)
       ELSE WithRecord(CopyRows(h, << h.txns[1].r >>))

\* ------------------------------------------------------------------------
\* A cursor on which a SQLQuery has been executed (as the query tests do):
\* cur.result is the result set, cur.rest the rows not yet fetched, cur.out
\* the last call made on the cursor

MaxResultRows == 2   \* rows of a result set
MaxColumns == 2      \* columns of a result set

\* "cursor.fetchone()" returns None when no row is left
NoRow == << >>

NoFetch == [op |-> "none", err |-> "none", ret |-> None, row |-> NoRow]

IdleCursor == [result |-> << >>, rest |-> << >>, out |-> NoFetch]

\* cursor.fetchone(): the next row, or None, and the rows left
Fetchone(rows) ==
  IF rows = << >> THEN [row |-> NoRow, rest |-> << >>]
  ELSE [row |-> Head(rows), rest |-> Tail(rows)]

\* SQLQuery._result_record with record_type SingleIntRow (one IntField):
\* None when no row is left, else SingleIntRow(*next_row), which raises
\* ValueError for a row that has not one value; ret is the record's answer
ResultRecord(rows) ==
  LET Got(f) ==
        IF f.row = NoRow
          THEN [err |-> "none", ret |-> None, row |-> f.row, rest |-> f.rest]
        ELSE IF Len(f.row) # 1
          THEN [err |-> "ValueError", ret |-> None, row |-> f.row, rest |-> f.rest]
        ELSE [err |-> "none", ret |-> f.row[1], row |-> f.row, rest |-> f.rest]
  IN Got(Fetchone(rows))

\* A single-value accessor that gives back the first column of any row
ResultSingleValueAnyWidth(rows) ==
  LET Got(f) ==
        IF f.row = NoRow
          THEN [err |-> "ValueError", ret |-> None, row |-> f.row, rest |-> f.rest]
          ELSE [err |-> "none", ret |-> f.row[1], row |-> f.row, rest |-> f.rest]
  IN Got(Fetchone(rows))

\* SQLQuery._result_singlevalue
ResultSingleValue(rows) ==
  LET Got(f) ==
        IF f.row = NoRow
          THEN [err |-> "ValueError", ret |-> None, row |-> f.row, rest |-> f.rest]
        ELSE IF Len(f.row) # 1
          THEN [err |-> "ValueError", ret |-> None, row |-> f.row, rest |-> f.rest]
        ELSE [err |-> "none", ret |-> f.row[1], row |-> f.row, rest |-> f.rest]
  IN Got(Fetchone(rows))

\* ------------------------------------------------------------------------
\* A NumericField of a standalone instance (as the field tests do).  A
\* decimal.Decimal is Dec(c, f): the coefficient c and the number f of digits
\* after the point, so Decimal('1.20') is Dec(120, 2); the values are not
\* negative

MaxCoef == 99        \* largest coefficient of an assigned Decimal
MaxFrac == 2         \* most digits after the point of an assigned Decimal

Dec(c, f) == <<"dec", c, f>>

RECURSIVE Pow10(_)
Pow10(k) == IF k = 0 THEN 1 ELSE 10 * Pow10(k - 1)

\* len(str(n)) of a coefficient
RECURSIVE Digits(_)
Digits(n) == IF n < 10 THEN 1 ELSE 1 + Digits(n \div 10)

\* NumericField(precision, scale, allow_floats, inexact_quantize), with
\* rounding=None and nullable=True as the defaults have them
NumericField(precision, scale, allow_floats, inexact_quantize) ==
  [precision |-> precision, scale |-> scale, allow_floats |-> allow_floats,
   inexact_quantize |-> inexact_quantize]

\* Decimal._rescale under ROUND_HALF_EVEN, which decimal.Context(rounding=None)
\* takes from the default context: the coefficient at f digits after the
\* point brought to s digits after the point
Rescale(c, f, s) ==
  IF f <= s THEN c * Pow10(s - f)
  ELSE LET q == c \div Pow10(f - s)
           r == c % Pow10(f - s)
           half == 5 * Pow10(f - s - 1)
       IN IF r > half \/ (r = half /\ q % 2 = 1) THEN q + 1 ELSE q

\* A quantize that does not look at the precision
QuantizeAnyPrecision(fd, d) ==
  LET Rounded(ans) ==
        IF d[3] > fd.scale /\ ans * Pow10(d[3] - fd.scale) # d[2] /\ ~fd.inexact_quantize
          THEN Raise("Inexact")
          ELSE Ok(Dec(ans, fd.scale))
  IN IF d[2] = 0 THEN Ok(Dec(0, fd.scale))
     ELSE Rounded(Rescale(d[2], d[3], fd.scale))

\* value.quantize(self.quantization, context=self.decimal_context): the
\* context traps InvalidOperation always and Inexact unless inexact_quantize
Quantize(fd, d) ==
  LET Rounded(ans) ==
        IF Digits(ans) > fd.precision THEN Raise("InvalidOperation")
        ELSE IF d[3] > fd.scale /\ ans * Pow10(d[3] - fd.scale) # d[2]
                  /\ ~fd.inexact_quantize
          THEN Raise("Inexact")
        ELSE Ok(Dec(ans, fd.scale))
  IN IF d[2] = 0 THEN Ok(Dec(0, fd.scale))
     ELSE IF Digits(d[2]) - d[3] + fd.scale > fd.precision THEN Raise("InvalidOperation")
     ELSE Rounded(Rescale(d[2], d[3], fd.scale))

\* NumericField.convert; Decimal(value) of an int or a string of digits has
\* no digits after the point, of a string that is no number raises
\* InvalidOperation, of the float k + 0.5 is exact
NumericConvert(fd, v) ==
  CASE v[1] = "dec" -> Quantize(fd, v)
    [] v[1] \in {"int", "str"} -> Quantize(fd, Dec(v[2], 0))
    [] v[1] = "text" -> Raise("InvalidOperation")
    [] v[1] = "float" /\ fd.allow_floats -> Quantize(fd, Dec(10 * v[2] + 5, 1))
    [] OTHER -> Raise("TypeError")

\* SQLField.__set__ on a NumericField (py_type is None, so every value that
\* is not None goes through convert)
NumericSet(fd, v) == IF v = None THEN Ok(None) ELSE NumericConvert(fd, v)

\* num: the descriptor, the instance's stored value, and the last assignment
\* (arg the value assigned, err what it raised, before the value stored
\* before it)
IdleNumeric ==
  [field |-> NumericField(1, 1, FALSE, FALSE), stored |-> None,
   op |-> "none", arg |-> None, err |-> "none", before |-> None]

\* ------------------------------------------------------------------------
\* The state machine
\* ------------------------------------------------------------------------
VARIABLES
  txn,        \* the SQLTransaction instance
  isolation,  \* its class's _isolation_level
  db,         \* the tables behind the cursor
  seq,        \* the sequence behind the cursor
  log,        \* the cursor calls of the last operation
  res,        \* the last operation: what ran, what the hooks returned, how it ended
  fld,        \* one field of one standalone SQLRecord instance and a context dictionary
  rec,        \* one standalone SQLTable instance, a context dictionary, the last SQL built
  heap,       \* transaction, record and record list objects, and the names x and y
  cur,        \* a cursor with an executed SQLQuery: its result set, the rows not yet fetched
  num         \* one NumericField of one standalone instance and the last assignment to it

vars == <<txn, isolation, db, seq, log, res, fld, rec, heap, cur, num>>

IsolationLevels == {"SERIALIZABLE", "MANUAL_TRANSACTIONS"}

\* Rows as the caller builds them: context-derived fields left None in the
\* odd rows, set by hand (to values the context must override) in the even ones
SampleRow(m, i) ==
  CASE m = "r1" -> << PyInt(7), PyInt(10) >>
    [] m = "r2" -> << None, None >>
    [] m = "l1" -> IF i % 2 = 1 THEN << None, None, PyInt(10 * i) >>
                                ELSE << PyInt(7), PyInt(5), PyInt(10 * i) >>
    [] m = "l2" -> << None, PyInt(5), PyInt(30) >>

SampleList(m, n) == [i \in 1..n |-> SampleRow(m, i)]

NoMembers == [r1 |-> Unset, r2 |-> Unset, l1 |-> << >>, l2 |-> << >>]

\* Txn(tid=1, ref=3, r1=Hdr(7, 10), r2=Aux(), l1=JrnList(n rows), l2=NoteList(1 row))
FullTxn(n) ==
  [fields |-> [tid |-> PyInt(1), ref |-> PyInt(3)],
   mem |-> [r1 |-> SampleRow("r1", 1), r2 |-> SampleRow("r2", 1),
            l1 |-> SampleList("l1", n), l2 |-> SampleList("l2", 1)]]

\* The instances a run starts from: the full one with every length of l1, and
\* the longest with one thing left out (tid, ref, r1, r2, the rows of l2)
\* or with ref=0
InitialTxns ==
  { FullTxn(n) : n \in 0..MaxRows }
  \cup { [FullTxn(MaxRows) EXCEPT !.fields.tid = None],
         [FullTxn(MaxRows) EXCEPT !.fields.ref = None],
         [FullTxn(MaxRows) EXCEPT !.fields.ref = PyInt(0)],
         [FullTxn(MaxRows) EXCEPT !.mem.r1 = Unset],
         [FullTxn(MaxRows) EXCEPT !.mem.r2 = Unset],
         [FullTxn(MaxRows) EXCEPT !.mem.l2 = << >>] }

\* A class with _isolation_level = MANUAL_TRANSACTIONS is run on the full
\* instance and on the one lacking ref
InitialConfigs ==
  { [txn |-> t, iso |-> "SERIALIZABLE"] : t \in InitialTxns }
  \cup { [txn |-> t, iso |-> "MANUAL_TRANSACTIONS"] :
           t \in {FullTxn(MaxRows), [FullTxn(MaxRows) EXCEPT !.fields.ref = None]} }

\* sent: the members as the last _insert_existing left them, kept while the
\* steps that follow are a new instance and its _context_select
NothingSent == [ok |-> FALSE, mem |-> NoMembers]

\* inserts: how many insert operations this instance has run (counted to 2)
\* selects: how many _context_select calls in a row (counted to 2)
\* filled:  the last _context_select changed a context field of the instance
NoOp ==
  [op |-> "none", hook |-> "-", verified |-> "-",
   err |-> "none", msg |-> "none", sent |-> NothingSent, inserts |-> 0,
   selects |-> 0, filled |-> FALSE]

IdleField ==
  [field |-> IntField(NoCtx), stored |-> None, context |-> EmptyContext,
   op |-> "none", ret |-> None, err |-> "none", before |-> None, had |-> Absent,
   arg |-> None]

\* rec: the instance's type m and stored values row, the dictionary context,
\* the last call op (allow: its allow_unlimited), what it returned or raised
\* (out), and the stored values and the dictionary before it (before, had)
IdleRec ==
  [m |-> "r1", row |-> NewRow("r1"), context |-> EmptyContext, op |-> "none",
   allow |-> TRUE, out |-> NoSql("none", NewRow("r1"), EmptyContext),
   before |-> NewRow("r1"), had |-> EmptyContext]

Init ==
  /\ \E c \in InitialConfigs : txn = c.txn /\ isolation = c.iso
  /\ db = EmptyDb
  /\ seq = CreatedSequence
  /\ log = << >>
  /\ res = NoOp
  /\ fld = IdleField
  /\ rec = IdleRec
  /\ heap = NoObjects
  /\ cur = IdleCursor
  /\ num = IdleNumeric

\* An exception propagates to the caller and ends the run
Alive == res.err = "none"

\* What _verify may return; it is not called when the hook has rejected
VerifyReturns == {"True", "False", "str"}
Called(hook, verified) == IF hook = "True" THEN verified ELSE "-"
Outcomes == { <<h, Called(h, v)>> : h \in Returns, v \in VerifyReturns }

\* The context dictionary _get_context builds from the instance's context fields
PlainContextOf(t) ==
  GetPlainContext(Start(t, EmptyDb, CreatedSequence), ContextFieldNames).context

\* No table holds a row matching the context the instance would select by
CleanFor(t, d) ==
  \A m \in Members :
    LET q == ContextSelectSql(m, PlainContextOf(t), TRUE)
    IN DbSelect(d[m], q.cols, q.vals) = << >>

Finish(op, st, o, sent) ==
  /\ txn' = st.txn
  /\ db' = st.db
  /\ seq' = st.seq
  /\ log' = st.log
  /\ res' = [op |-> op, hook |-> o[1], verified |-> o[2],
             err |-> st.err, msg |-> st.msg, sent |-> sent,
             inserts |-> IF op \in {"insert_existing", "insert_new"} /\ res.inserts < 2
                           THEN res.inserts + 1 ELSE res.inserts,
             selects |-> IF op # "context_select" THEN 0
                         ELSE IF res.selects < 2 THEN res.selects + 1 ELSE 2,
             filled |-> op = "context_select" /\ st.txn.fields # txn.fields]
  /\ UNCHANGED <<isolation, fld, rec, heap, cur, num>>

\* The values the cursor was given for member m: the parameters of its INSERT,
\* the rows of its executemany, Unset when no INSERT of m was issued
InsertedAs(lg, m) ==
  LET At(at) == IF at = {} THEN Unset
                ELSE IF m \in {"r1", "r2"} THEN lg[CHOOSE i \in at : TRUE].params
                ELSE lg[CHOOSE i \in at : TRUE].batch
  IN At({ i \in 1..Len(lg) : lg[i].member = m /\ lg[i].kind \in {"INSERT", "INSERTMANY"} })

\* sent: what an _insert_existing that returned has put in tables that were
\* clean, for a read-back to be compared with
SentBy(st, clean) ==
  IF Running(st) /\ clean THEN [ok |-> TRUE, mem |-> [m \in Members |-> InsertedAs(st.log, m)]]
  ELSE NothingSent

InsertExisting ==
  /\ Alive
  /\ \E o \in Outcomes :
       LET Done(st) == Finish("insert_existing", st, o, SentBy(st, CleanFor(txn, db)))
       IN Done(InsertExistingRun(txn, db, seq, isolation, o[1], o[2]))

InsertNew ==
  /\ Alive
  /\ seq[1].nextval <= MaxSeq
  /\ \E o \in Outcomes :
       Finish("insert_new", InsertNewRun(txn, db, seq, isolation, o[1], o[2]),
              o, NothingSent)

Update ==
  /\ Alive
  /\ \E o \in Outcomes :
       Finish("update", UpdateRun(txn, db, seq, isolation, o[1], o[2]), o, NothingSent)

Delete ==
  /\ Alive
  /\ \E o \in Outcomes :
       Finish("delete", DeleteRun(txn, db, seq, isolation, o[1], o[2]), o, NothingSent)

ContextSelect ==
  /\ Alive
  /\ \E allow \in BOOLEAN, o \in Outcomes :
       Finish("context_select",
              ContextSelectRun(txn, db, seq, isolation, allow, o[1], o[2]), o,
              IF res.op = "new_instance" THEN res.sent ELSE NothingSent)

\* "new_trans = Txn(tid=..., ref=...)": a fresh instance with the same
\* context field values; SQLRecord members None, SQLRecordList members empty
NewInstance ==
  /\ Alive
  /\ txn' = [fields |-> txn.fields, mem |-> NoMembers]
  /\ log' = << >>
  /\ res' = [NoOp EXCEPT !.op = "new_instance",
                         !.sent = IF res.op = "insert_existing" THEN res.sent
                                  ELSE NothingSent]
  /\ UNCHANGED <<isolation, db, seq, fld, rec, heap, cur, num>>

Next ==
  \/ InsertExisting
  \/ InsertNew
  \/ Update
  \/ Delete
  \/ ContextSelect
  \/ NewInstance

Spec == Init /\ [][Next]_vars

\* ------------------------------------------------------------------------
\* Reading back from a database that holds two transactions: the sample
\* instance inserted twice by _insert_new (tid 1, then tid 2), read by new
\* instances given both, one or none of the context fields
\* ------------------------------------------------------------------------
\* The reader is "Txn()", "Txn(tid=...)", "Txn(ref=...)" or "Txn(tid=..., ref=...)";
\* ref=0 is a value given that is false in Python's sense
SelectInit ==
  /\ \E n \in 0..MaxRows :
       LET InsertedAgain(s) ==
             InsertNewRun(s.txn, s.db, s.seq, "SERIALIZABLE", "True", "True")
           From(s) == db = s.db /\ seq = s.seq
       IN From(InsertedAgain(InsertedAgain(Start(FullTxn(n), EmptyDb, CreatedSequence))))
  /\ \E t \in {None, PyInt(1), PyInt(2)}, r \in {None, PyInt(0), PyInt(3)} :
       txn = [fields |-> [tid |-> t, ref |-> r], mem |-> NoMembers]
  /\ isolation \in IsolationLevels
  /\ log = << >>
  /\ res = [NoOp EXCEPT !.op = "new_instance"]
  /\ fld = IdleField
  /\ rec = IdleRec
  /\ heap = NoObjects
  /\ cur = IdleCursor
  /\ num = IdleNumeric

SelectNext ==
  \/ ContextSelect
  \/ NewInstance

SelectSpec == SelectInit /\ [][SelectNext]_vars

\* ------------------------------------------------------------------------
\* One field of a standalone SQLRecord instance, read against context
\* dictionaries (as the field tests do): fld holds the descriptor, the
\* instance's stored value, the dictionary, and the last call made
\*   op, ret, err   the call, what it returned, what it raised
\*   before, had    the stored value and the dictionary's entry before it
\*   arg            the value of the last assignment
\* ------------------------------------------------------------------------
SampleFields ==
  { IntField("tid"), NotNullIntField("tid"), IntField(NoCtx),
    RowEnumIntField("row_id", StartingNumber) }

SampleValues == { None, PyInt(0), PyInt(7), PyStr(4), PyText(1), PyFloat(1) }

\* The key the sample dictionaries give or lack
SampleKey(f) == IF f.ctx = NoCtx THEN "tid" ELSE f.ctx

FieldInit ==
  /\ fld \in { [IdleField EXCEPT !.field = f] : f \in SampleFields }
  /\ txn = FullTxn(0)
  /\ isolation = "SERIALIZABLE"
  /\ db = EmptyDb
  /\ seq = CreatedSequence
  /\ log = << >>
  /\ res = NoOp
  /\ rec = IdleRec
  /\ heap = NoObjects
  /\ cur = IdleCursor
  /\ num = IdleNumeric

\* "record.field = v"
FieldAssign ==
  /\ \E v \in SampleValues :
       LET Assigned(a) ==
             fld' = [fld EXCEPT !.op = "set", !.ret = None, !.err = a.err, !.arg = v,
                                !.stored = IF a.err = "none" THEN a.val ELSE @,
                                !.before = fld.stored,
                                !.had = fld.context[SampleKey(fld.field)]]
       IN Assigned(FieldSet(fld.field, v))
  /\ UNCHANGED <<txn, isolation, db, seq, log, res, rec, heap, cur, num>>

\* "context = {}" or "context = {key: v}"
FieldNewContext ==
  /\ \E v \in SampleValues \cup {Absent} :
       fld' = [fld EXCEPT !.op = "new_context", !.ret = None, !.err = "none",
                          !.context = [EmptyContext EXCEPT ![SampleKey(fld.field)] = v],
                          !.before = fld.stored,
                          !.had = fld.context[SampleKey(fld.field)]]
  /\ UNCHANGED <<txn, isolation, db, seq, log, res, rec, heap, cur, num>>

\* "field.get_context(record, context)"
FieldGetContext ==
  /\ fld.field.kind = "enum" /\ fld.context[fld.field.ctx][1] \in {"int", "float"}
       => fld.context[fld.field.ctx][2] < MaxCount
  /\ LET Got(g) ==
           fld' = [fld EXCEPT !.op = "get_context", !.ret = g.ret, !.err = g.err,
                              !.stored = g.stored, !.context = g.context,
                              !.before = fld.stored,
                              !.had = fld.context[SampleKey(fld.field)]]
     IN Got(GetContext(fld.field, fld.stored, fld.context))
  /\ UNCHANGED <<txn, isolation, db, seq, log, res, rec, heap, cur, num>>

FieldNext ==
  \/ FieldAssign
  \/ FieldNewContext
  \/ FieldGetContext

FieldSpec == FieldInit /\ [][FieldNext]_vars

\* ------------------------------------------------------------------------
\* The SQL-building methods of a standalone SQLTable instance, called with
\* context dictionaries (as the record tests do)
\* ------------------------------------------------------------------------
SqlInit ==
  /\ rec = IdleRec
  /\ heap = NoObjects
  /\ cur = IdleCursor
  /\ num = IdleNumeric
  /\ txn = FullTxn(0)
  /\ isolation = "SERIALIZABLE"
  /\ db = EmptyDb
  /\ seq = CreatedSequence
  /\ log = << >>
  /\ res = NoOp
  /\ fld = IdleField

\* "record = record_type(v1, v2, ...)", of a type with a one-column key, a
\* two-column key or no primary key
RecNew ==
  /\ \E m \in {"r1", "r2", "l1", "nokey"} :
     \E row \in [1..Len(Fields(m)) -> {None, PyInt(0), PyInt(2)}] :
       rec' = [IdleRec EXCEPT !.m = m, !.row = row, !.before = row, !.op = "new",
                              !.context = rec.context, !.had = rec.context]
  /\ UNCHANGED <<txn, isolation, db, seq, log, res, fld, heap, cur, num>>

\* "context = {...}": "{}" and dictionaries giving some of the keys
RecNewContext ==
  /\ \E c \in [ContextKeys -> {Absent, PyInt(1)}] :
       rec' = [rec EXCEPT !.context = c, !.had = c, !.before = rec.row,
                          !.op = "new_context"]
  /\ UNCHANGED <<txn, isolation, db, seq, log, res, fld, heap, cur, num>>

\* "record_type._context_select_sql(context, allow_unlimited=...)"
RecContextSelectSql ==
  /\ \E allow \in BOOLEAN :
       rec' = [rec EXCEPT !.op = "context_select_sql", !.allow = allow,
                          !.out = ContextSelectSql(rec.m, rec.context, allow),
                          !.before = rec.row, !.had = rec.context]
  /\ UNCHANGED <<txn, isolation, db, seq, log, res, fld, heap, cur, num>>

\* The row enumerator of the dictionary is kept within MaxCount
CountBounded == HasKey(rec.context, "row_id") => rec.context["row_id"][2] < MaxCount

\* A call that reads the fields: they and the dictionary are left as it left them
RecCalled(op, u) ==
  rec' = [rec EXCEPT !.op = op, !.out = u, !.row = u.row, !.context = u.context,
                     !.before = rec.row, !.had = rec.context]

\* "record._update_sql(context)"
RecUpdateSql ==
  /\ CountBounded
  /\ RecCalled("update_sql", UpdateSql(rec.m, rec.row, rec.context))
  /\ UNCHANGED <<txn, isolation, db, seq, log, res, fld, heap, cur, num>>

\* "record._delete_sql(context)"
RecDeleteSql ==
  /\ CountBounded
  /\ RecCalled("delete_sql", DeleteSql(rec.m, rec.row, rec.context))
  /\ UNCHANGED <<txn, isolation, db, seq, log, res, fld, heap, cur, num>>

\* "record.set_values((v, ...))", "record.set_values(name=v, ...)" and
\* "record.set_values()": the positional values are too few, as many as the
\* fields or too many; the keywords name each field at most once, some of
\* them a field the type does not have.  out keeps what the caller passed.
SetValuesArguments(m) ==
  { [values |-> [i \in 1..n |-> PyInt(1)], kwargs |-> << >>] :
      n \in 0..(Len(Fields(m)) + 1) }
  \cup
  { [values |-> << >>, kwargs |-> [i \in DOMAIN names |-> <<names[i], PyInt(1)>>]] :
      names \in { q \in UNION { [1..k -> 0..Len(Fields(m))] : k \in 1..MaxKeywords } :
                    \A i, j \in DOMAIN q : i # j => q[i] # q[j] } }

RecSetValues ==
  /\ \E a \in SetValuesArguments(rec.m) :
       LET Done(u) ==
             rec' = [rec EXCEPT !.op = "set_values", !.row = u.row,
                                !.out = [err |-> u.err, row |-> u.row,
                                         context |-> rec.context,
                                         values |-> a.values, kwargs |-> a.kwargs],
                                !.before = rec.row, !.had = rec.context]
       IN Done(SetValuesCall(rec.m, rec.row, a.values, a.kwargs))
  /\ UNCHANGED <<txn, isolation, db, seq, log, res, fld, heap, cur, num>>

SqlNext ==
  \/ RecNew
  \/ RecNewContext
  \/ RecContextSelectSql
  \/ RecUpdateSql
  \/ RecDeleteSql

SqlSpec == SqlInit /\ [][SqlNext]_vars

\* The records test of set_values: instances are made and their values set
SetValuesNext ==
  \/ RecNew
  \/ RecSetValues

SetValuesSpec == SqlInit /\ [][SetValuesNext]_vars

\* ------------------------------------------------------------------------
\* The calls.  Each is made on the transaction object x or y names; a call
\* that raises leaves every object as it was.
\* ------------------------------------------------------------------------
Room(h, n) == Cardinality({ i \in 1..MaxObj : h.rows[i].type = "free" }) >= n

ListCall(h, op, k, bad, err, idx, ret) ==
  /\ heap' = Collect([h EXCEPT !.last = [op |-> op, who |-> k, bad |-> bad, err |-> err,
                                          idx |-> idx, ret |-> ret]])
  /\ UNCHANGED <<txn, isolation, db, seq, log, res, fld, rec, cur, num>>

ListInit ==
  /\ \E n \in 0..MaxLen, r \in 0..1 :
       heap = [NoObjects EXCEPT
                 !.rows = [i \in 1..(MaxObj + 1) |->
                             IF i <= r + n THEN [type |-> "Jrn", val |-> 1] ELSE @[i]],
                 !.lists[1] = [live |-> TRUE, items |-> [j \in 1..n |-> r + j]],
                 !.txns[1] = [live |-> TRUE, tid |-> 1, r |-> r, l |-> 1]]
  /\ txn = FullTxn(0)
  /\ isolation = "SERIALIZABLE"
  /\ db = EmptyDb
  /\ seq = CreatedSequence
  /\ log = << >>
  /\ res = NoOp
  /\ fld = IdleField
  /\ rec = IdleRec
  /\ cur = IdleCursor
  /\ num = IdleNumeric

\* "t.l = JrnList(values)": SQLRecordList.__init__, then SQLTransactionField.__set__
ListNew ==
  \E k \in {1, heap.y} \ {0}, vals \in { << >>, <<1>>, <<0>>, <<1, 1>>, <<1, 0>>, <<0, 1>> } :
    /\ Room(heap, 2)
    /\ LET others == { heap.txns[n].l : n \in {1, heap.y} \ {0, k} }
           new == CHOOSE j \in 1..2 : j \notin others /\ \A i \in 1..2 : i \notin others => j <= i
           Built(p) ==
             IF \A n \in 1..Len(p.ids) : p.h.rows[p.ids[n]].type = "Jrn"
               THEN ListCall([p.h EXCEPT !.lists[new] = [live |-> TRUE, items |-> p.ids],
                                       !.txns[k].l = new],
                           "new", k, \E n \in 1..Len(vals) : vals[n] = 0, "none", 0, << >>)
               ELSE ListCall(heap, "new", k, \E n \in 1..Len(vals) : vals[n] = 0, "ValueError", 0, << >>)
       IN Built(PassingAll(heap, vals, << >>))

\* "t.l._append(value)"
ListAppend ==
  \E k \in {1, heap.y} \ {0}, val \in 0..1 :
    /\ Room(heap, 1) /\ (val # 0 => Len(heap.lists[heap.txns[k].l].items) < MaxLen)
    /\ LET Given(p) ==
             IF p.h.rows[p.id].type = "Jrn"
               THEN ListCall([p.h EXCEPT !.lists[heap.txns[k].l].items = Append(@, p.id)],
                           "append", k, val = 0, "none", 0, << >>)
               ELSE ListCall(heap, "append", k, val = 0, "ValueError", 0, << >>)
       IN Given(Passing(heap, val))

\* An _extend that tests only the first of the values
ListExtendFirstTested ==
  \E k \in {1, heap.y} \ {0}, vals \in { << >>, <<1>>, <<0>>, <<1, 1>>, <<1, 0>>, <<0, 1>> } :
    /\ Room(heap, 2)
    /\ (\A n \in 1..Len(vals) : vals[n] # 0)
         => Len(heap.lists[heap.txns[k].l].items) + Len(vals) <= MaxLen
    /\ LET Given(p) ==
             IF p.ids = << >> \/ p.h.rows[p.ids[1]].type = "Jrn"
               THEN ListCall([p.h EXCEPT !.lists[heap.txns[k].l].items = @ \o p.ids],
                           "extend", k, \E n \in 1..Len(vals) : vals[n] = 0, "none", 0, << >>)
               ELSE ListCall(heap, "extend", k, \E n \in 1..Len(vals) : vals[n] = 0,
                             "ValueError", 0, << >>)
       IN Given(PassingAll(heap, vals, << >>))

\* "t.l._extend(values)"
ListExtend ==
  \E k \in {1, heap.y} \ {0}, vals \in { << >>, <<1>>, <<0>>, <<1, 1>>, <<1, 0>>, <<0, 1>> } :
    /\ Room(heap, 2)
    /\ (\A n \in 1..Len(vals) : vals[n] # 0)
         => Len(heap.lists[heap.txns[k].l].items) + Len(vals) <= MaxLen
    /\ LET Given(p) ==
             IF \A n \in 1..Len(p.ids) : p.h.rows[p.ids[n]].type = "Jrn"
               THEN ListCall([p.h EXCEPT !.lists[heap.txns[k].l].items = @ \o p.ids],
                           "extend", k, \E n \in 1..Len(vals) : vals[n] = 0, "none", 0, << >>)
               ELSE ListCall(heap, "extend", k, \E n \in 1..Len(vals) : vals[n] = 0,
                             "ValueError", 0, << >>)
       IN Given(PassingAll(heap, vals, << >>))

\* An _insert that puts the row last whatever the index
ListInsertLast ==
  \E k \in {1, heap.y} \ {0}, val \in 0..1 :
  \E i \in 0..Len(heap.lists[heap.txns[k].l].items) :
    /\ Room(heap, 1) /\ (val # 0 => Len(heap.lists[heap.txns[k].l].items) < MaxLen)
    /\ LET Given(p) ==
             IF p.h.rows[p.id].type = "Jrn"
               THEN ListCall([p.h EXCEPT !.lists[heap.txns[k].l].items =
                                         Append(@, p.id)],
                           "insert", k, val = 0, "none", i, << >>)
               ELSE ListCall(heap, "insert", k, val = 0, "ValueError", i, << >>)
       IN Given(Passing(heap, val))

\* "t.l._insert(index, obj)", index a position of the list or its length
ListInsert ==
  \E k \in {1, heap.y} \ {0}, val \in 0..1 :
  \E i \in 0..Len(heap.lists[heap.txns[k].l].items) :
    /\ Room(heap, 1) /\ (val # 0 => Len(heap.lists[heap.txns[k].l].items) < MaxLen)
    /\ LET Given(p) ==
             IF p.h.rows[p.id].type = "Jrn"
               THEN ListCall([p.h EXCEPT !.lists[heap.txns[k].l].items =
                                         SubSeq(@, 1, i) \o << p.id >> \o SubSeq(@, i + 1, Len(@))],
                           "insert", k, val = 0, "none", i, << >>)
               ELSE ListCall(heap, "insert", k, val = 0, "ValueError", i, << >>)
       IN Given(Passing(heap, val))

\* "t.l[key] = value", key a position of the list or its length
ListSetItem ==
  \E k \in {1, heap.y} \ {0}, val \in 0..1 :
  \E i \in 0..Len(heap.lists[heap.txns[k].l].items) :
    /\ Room(heap, 1)
    /\ LET Given(p) ==
             IF ~p.h.rows[p.id].type = "Jrn"
               THEN ListCall(heap, "setitem", k, val = 0, "ValueError", i, << >>)
             ELSE IF i = Len(heap.lists[heap.txns[k].l].items)
               THEN ListCall(heap, "setitem", k, val = 0, "IndexError", i, << >>)
             ELSE ListCall([p.h EXCEPT !.lists[heap.txns[k].l].items[i + 1] = p.id],
                         "setitem", k, val = 0, "none", i, << >>)
       IN Given(Passing(heap, val))

\* "del t.l[key]", key a position of the list or its length
ListDelItem ==
  \E k \in {1, heap.y} \ {0} :
  \E i \in 0..Len(heap.lists[heap.txns[k].l].items) :
    IF i = Len(heap.lists[heap.txns[k].l].items)
      THEN ListCall(heap, "delitem", k, FALSE, "IndexError", i, << >>)
      ELSE ListCall([heap EXCEPT !.lists[heap.txns[k].l].items =
                                 SubSeq(@, 1, i) \o SubSeq(@, i + 2, Len(@))],
                  "delitem", k, FALSE, "none", i, << >>)

\* "t.l._clear()"
ListClear ==
  \E k \in {1, heap.y} \ {0} :
    ListCall([heap EXCEPT !.lists[heap.txns[k].l].items = << >>],
           "clear", k, FALSE, "none", 0, << >>)

\* "list(t.l.field)": SQLRecordListField.get
ListField ==
  \E k \in {1, heap.y} \ {0} :
    ListCall(heap, "field", k, FALSE, "none", 0,
           [n \in 1..Len(heap.lists[heap.txns[k].l].items) |->
              heap.rows[heap.lists[heap.txns[k].l].items[n]].val])

\* "y = x._copy()"
Copy ==
  /\ heap.y = 0
  /\ Room(heap, 1 + Len(heap.lists[heap.txns[1].l].items))
  /\ ListCall(TxnCopy(heap), "copy", 1, FALSE, "none", 0, << >>)

\* "y = x"
Alias ==
  /\ heap.y = 0
  /\ ListCall([heap EXCEPT !.y = 1], "alias", 1, FALSE, "none", 0, << >>)

\* "t.tid = v"
AssignContextField ==
  \E k \in {1, heap.y} \ {0}, v \in {2} :
    ListCall([heap EXCEPT !.txns[k].tid = v], "set_tid", k, FALSE, "none", 0, << >>)

\* "t.r.field = v" (idx 0) and "t.l[0].field = v" (idx 1)
AssignRowField ==
  \E k \in {1, heap.y} \ {0}, v \in {2} :
  \E i \in 0..1 :
    /\ i <= Len(heap.lists[heap.txns[k].l].items)
    /\ i = 0 => heap.txns[k].r # 0
    /\ LET id == IF i = 0 THEN heap.txns[k].r ELSE heap.lists[heap.txns[k].l].items[i]
       IN ListCall([heap EXCEPT !.rows[id].val = v], "set_field", k, FALSE, "none", i, << >>)

ListNext ==
  \/ ListNew
  \/ ListAppend
  \/ ListExtend
  \/ ListInsert
  \/ ListSetItem
  \/ ListDelItem
  \/ ListClear
  \/ ListField
  \/ Copy
  \/ Alias
  \/ AssignContextField
  \/ AssignRowField

ListSpec == ListInit /\ [][ListNext]_vars

\* ------------------------------------------------------------------------
\* A SQLSequence used on its own (as the sequence tests do): seq is its
\* table, log the statements executed on the cursor since it was created
\* ------------------------------------------------------------------------
MaxLog == 11

\* "SQLSequence(name=..., start=..., interval=...)" and its first create
SeqInit ==
  /\ \E start \in {1, 2}, interval \in {0, 1, 3} : seq = SeqCreate(<< >>, start, interval)
  /\ log = << >>
  /\ txn = FullTxn(0)
  /\ isolation = "SERIALIZABLE"
  /\ db = EmptyDb
  /\ res = NoOp
  /\ fld = IdleField
  /\ rec = IdleRec
  /\ heap = NoObjects
  /\ cur = IdleCursor
  /\ num = IdleNumeric

\* "seq.create(cursor)" on the sequence that exists already
SeqCreateAgain ==
  /\ Len(log) + 2 <= MaxLog /\ Len(seq) < 2
  /\ seq' = SeqCreate(seq, seq[1].start, seq[1].interval)
  /\ log' = log \o << Stmt("CREATE_SEQ", "seq", << >>, << >>),
                      Stmt("INSERT_SEQ", "seq", << >>, << >>) >>
  /\ UNCHANGED <<txn, isolation, db, res, fld, rec, heap, cur, num>>

\* "seq.nextval(cursor)"
SeqNextval ==
  /\ Len(log) + 2 <= MaxLog
  /\ seq' = SeqAdvance(seq)
  /\ log' = log \o << Stmt("UPDATE_SEQ", "seq", << >>, << >>),
                      Stmt("SELECT_SEQ", "seq", << >>, << PyInt(SeqLastval(seq')) >>) >>
  /\ UNCHANGED <<txn, isolation, db, res, fld, rec, heap, cur, num>>

\* "seq.reset(cursor)"
SeqResetCall ==
  /\ Len(log) + 1 <= MaxLog
  /\ seq' = SeqReset(seq)
  /\ log' = Append(log, Stmt("RESET_SEQ", "seq", << >>, << >>))
  /\ UNCHANGED <<txn, isolation, db, res, fld, rec, heap, cur, num>>

SeqNext ==
  \/ SeqCreateAgain
  \/ SeqNextval
  \/ SeqResetCall

SeqSpec == SeqInit /\ [][SeqNext]_vars

\* ------------------------------------------------------------------------
\* The calls on the cursor of an executed SQLQuery

QueryInit ==
  /\ txn = FullTxn(0)
  /\ isolation = "SERIALIZABLE"
  /\ db = EmptyDb
  /\ seq = CreatedSequence
  /\ log = << >>
  /\ res = NoOp
  /\ fld = IdleField
  /\ rec = IdleRec
  /\ heap = NoObjects
  /\ cur = IdleCursor
  /\ num = IdleNumeric

\* "query._execute(cursor)": the database answers with some result set
QueryExecute ==
  /\ \E n \in 0..MaxResultRows, w \in 1..MaxColumns :
       \E r \in [1..n -> [1..w -> {None, PyInt(1)}]] :
         cur' = [result |-> r, rest |-> r, out |-> [NoFetch EXCEPT !.op = "execute"]]
  /\ UNCHANGED <<txn, isolation, db, seq, log, res, fld, rec, heap, num>>

\* "query._result_singlevalue(cursor)"
QueryResultSingleValue ==
  /\ LET Then(g) ==
           cur' = [cur EXCEPT !.rest = g.rest,
                              !.out = [op |-> "singlevalue", err |-> g.err,
                                       ret |-> g.ret, row |-> g.row]]
     IN Then(ResultSingleValue(cur.rest))
  /\ UNCHANGED <<txn, isolation, db, seq, log, res, fld, rec, heap, num>>

\* "query._result_record(cursor)"
QueryResultRecord ==
  /\ LET Then(g) ==
           cur' = [cur EXCEPT !.rest = g.rest,
                              !.out = [op |-> "record", err |-> g.err,
                                       ret |-> g.ret, row |-> g.row]]
     IN Then(ResultRecord(cur.rest))
  /\ UNCHANGED <<txn, isolation, db, seq, log, res, fld, rec, heap, num>>

QueryNext ==
  \/ QueryExecute
  \/ QueryResultSingleValue
  \/ QueryResultRecord

QuerySpec == QueryInit /\ [][QueryNext]_vars

\* ------------------------------------------------------------------------
\* Assignments to a NumericField of a standalone instance

\* The fields of the holder: NUMERIC(1, 1), which holds 0.0 to 0.9, with and
\* without allow_floats and inexact_quantize
SampleNumericFields ==
  { NumericField(1, 1, af, iq) : af \in BOOLEAN, iq \in BOOLEAN }

NumericInit ==
  /\ num \in { [IdleNumeric EXCEPT !.field = fd] : fd \in SampleNumericFields }
  /\ txn = FullTxn(0)
  /\ isolation = "SERIALIZABLE"
  /\ db = EmptyDb
  /\ seq = CreatedSequence
  /\ log = << >>
  /\ res = NoOp
  /\ fld = IdleField
  /\ rec = IdleRec
  /\ heap = NoObjects
  /\ cur = IdleCursor

\* The values assigned: Decimals, ints, strings, floats and None
NumericValues ==
  { Dec(c, f) : c \in 0..MaxCoef, f \in 0..MaxFrac }
    \cup { None, PyInt(0), PyInt(1), PyStr(0), PyText(1), PyFloat(0), PyFloat(1) }

\* "holder.numeric_field = v"
NumericAssign ==
  /\ \E v \in NumericValues :
       LET Assigned(a) ==
             num' = [num EXCEPT !.op = "set", !.arg = v, !.err = a.err,
                                !.stored = IF a.err = "none" THEN a.val ELSE @,
                                !.before = num.stored]
       IN Assigned(NumericSet(num.field, v))
  /\ UNCHANGED <<txn, isolation, db, seq, log, res, fld, rec, heap, cur>>

\* "holder = Holder()": a new instance, nothing stored
NumericNewHolder ==
  /\ num' = [IdleNumeric EXCEPT !.field = num.field, !.op = "new"]
  /\ UNCHANGED <<txn, isolation, db, seq, log, res, fld, rec, heap, cur>>

NumericNext ==
  \/ NumericAssign
  \/ NumericNewHolder

NumericSpec == NumericInit /\ [][NumericNext]_vars

\* ------------------------------------------------------------------------
\* Properties
\* ------------------------------------------------------------------------
InsertOps == {"insert_existing", "insert_new"}
WriteOps == {"update", "delete"}
MemberKinds == {"INSERT", "INSERTMANY", "UPDATE", "DELETE"}

\* The context dictionary of the operation that has just run: the entries
\* _get_context makes from the instance's context fields as they now are
ContextNow == PlainContextOf(txn)

\* The statements of the log in order, as a set of positions
LogIdx == 1..Len(log)

\* params are bound for row, and every non-enumerator field whose context key
\* is in the dictionary carries the dictionary's value, bound and stored
RowCarries(m, params, row) ==
  \A c \in 1..Len(Fields(m)) :
    (Fields(m)[c].kind # "enum" /\ Fields(m)[c].ctx # NoCtx
       /\ HasKey(ContextNow, Fields(m)[c].ctx))
      => (params[c] = ContextNow[Fields(m)[c].ctx] /\ row[c] = ContextNow[Fields(m)[c].ctx])

\* C1: after insert_new or insert_existing, every INSERT the operation issued
\* (for a Row member, or for each row of a RowCollection member's batch) binds,
\* for each non-enumerator field whose context key is in the transaction's
\* context, the context's value, and the row stores that value afterwards.
C1_ContextConsistency ==
  res.op \in InsertOps =>
    \A i \in LogIdx :
      /\ log[i].kind = "INSERT" =>
           RowCarries(log[i].member, log[i].params, txn.mem[log[i].member])
      /\ log[i].kind = "INSERTMANY" =>
           /\ Len(log[i].batch) = Len(txn.mem[log[i].member])
           /\ \A j \in 1..Len(log[i].batch) :
                RowCarries(log[i].member, log[i].batch[j], txn.mem[log[i].member][j])

\* An insert that returned, whose Row member r1 had its hand-set tid replaced
\* by the context's and whose batch for l1 held every row of the list
C1_Witness ==
  /\ res.op \in InsertOps /\ res.err = "none"
  /\ \E i \in LogIdx :
       /\ log[i].kind = "INSERT" /\ log[i].member = "r1"
       /\ log[i].params[1] = txn.fields.tid
       /\ log[i].params[1] # SampleRow("r1", 1)[1]
  /\ \E i \in LogIdx :
       /\ log[i].kind = "INSERTMANY" /\ log[i].member = "l1"
       /\ Len(log[i].batch) = MaxRows

\* C2: in insert_existing, insert_new, update and delete, when the pre-hook
\* returned False or a string, or _verify returned False, the operation raised
\* VerificationError (with the string as its message when the hook returned
\* one) and no INSERT, UPDATE or DELETE of a member row is on the cursor.
C2_VerificationGate ==
  (res.op \in InsertOps \cup WriteOps
     /\ (res.hook \in {"False", "str"} \/ res.verified = "False"))
    => /\ res.err = "VerificationError"
       /\ res.hook = "str" => res.msg = "str"
       /\ \A i \in LogIdx : log[i].kind \notin MemberKinds

\* _verify rejected an insert_existing of an instance holding both Row
\* members and rows in its first RowCollection
C2_Witness ==
  /\ res.op = "insert_existing" /\ res.hook = "True" /\ res.verified = "False"
  /\ res.err = "VerificationError"
  /\ txn.mem.r1 # Unset /\ txn.mem.r2 # Unset /\ Len(txn.mem.l1) = MaxRows

AllOps == InsertOps \cup WriteOps \cup {"context_select"}

\* How many statements of one kind the operation issued
Count(kind) == Cardinality({ i \in LogIdx : log[i].kind = kind })

\* C3: under an isolation level other than MANUAL_TRANSACTIONS, each of the
\* five operations issues BEGIN first; when it returns normally exactly one
\* COMMIT and no ROLLBACK was issued; when it raises, a ROLLBACK and no COMMIT
\* was issued.
C3_TransactionScope ==
  (res.op \in AllOps /\ isolation # "MANUAL_TRANSACTIONS")
    => /\ log # << >> /\ log[1].kind = "BEGIN"
       /\ res.err = "none" => (Count("COMMIT") = 1 /\ Count("ROLLBACK") = 0)
       /\ res.err # "none" => (Count("ROLLBACK") >= 1 /\ Count("COMMIT") = 0)

\* The same for every case but a _context_select that got as far as _verify
TransactionScopeInsideWith ==
  (res.op = "context_select" /\ res.hook = "True" /\ res.err = "VerificationError")
    \/ C3_TransactionScope

\* A _context_select whose _verify rejected: the COMMIT was already issued,
\* no ROLLBACK follows, and VerificationError is raised
CommittedThenRaised ==
  /\ res.op = "context_select" /\ isolation # "MANUAL_TRANSACTIONS"
  /\ res.verified = "False" /\ res.err = "VerificationError"
  /\ Count("COMMIT") = 1 /\ Count("ROLLBACK") = 0

\* C4: when an insert_existing that returned, made into tables holding no row
\* matching the instance's context, is followed at once by context_select on a
\* fresh instance with the same context field values, and the read-back got
\* past its SELECTs, every Row member that was inserted holds the values that
\* were inserted and every RowCollection member holds the rows of its batch,
\* as many and in the same order.
C4_RoundTrip ==
  (res.op = "context_select" /\ res.sent.ok /\ res.err \in {"none", "VerificationError"})
    => /\ \A m \in {"r1", "r2"} : res.sent.mem[m] # Unset => txn.mem[m] = res.sent.mem[m]
       /\ \A m \in {"l1", "l2"} : txn.mem[m] = res.sent.mem[m]

\* A read-back that returned with both Row members and a full first
\* RowCollection, whose second row had its hand-set tid and row_id overridden
\* when it was inserted
C4_Witness ==
  /\ res.op = "context_select" /\ res.sent.ok /\ res.err = "none"
  /\ txn.mem.r1 = << txn.fields.tid, PyInt(10) >> /\ txn.fields.tid # None
  /\ txn.mem.r2 # NewRow("r2")
  /\ Len(txn.mem.l1) = MaxRows
  /\ txn.mem.l1[2] = << txn.fields.tid, PyInt(StartingNumber + 1), PyInt(20) >>
  /\ Len(txn.mem.l2) = 1

\* The field calls made on a field that declares a context key, with the key
\* in the dictionary
ContextGiven(kind) ==
  /\ fld.op = "get_context" /\ fld.field.kind = kind
  /\ fld.field.ctx # NoCtx /\ fld.had # Absent

\* C5: get_context on a plain field that declares a context key, with the key
\* in the dictionary: when the field accepts the dictionary's value the call
\* returns that value and the instance's stored value is that value, whatever
\* was stored before; when the field does not accept it the call raises.
C5_ContextOverrides ==
  ContextGiven("int") =>
    IF FieldSet(fld.field, fld.had).err = "none"
      THEN fld.err = "none" /\ fld.ret = fld.had /\ fld.stored = fld.had
      ELSE fld.err # "none"

\* The same, the stored value being what the field's __set__ makes of the
\* dictionary's value, and the stored value kept when the call raises
ContextOverridesAsSet ==
  ContextGiven("int") =>
    IF FieldSet(fld.field, fld.had).err = "none"
      THEN /\ fld.err = "none" /\ fld.ret = fld.had
           /\ fld.stored = FieldSet(fld.field, fld.had).val
      ELSE fld.err = FieldSet(fld.field, fld.had).err /\ fld.stored = fld.before

\* The dictionary held the string '4' over a hand-set 7: '4' was returned, 4 is stored
ReturnedNotStored ==
  /\ ContextGiven("int") /\ fld.err = "none"
  /\ fld.before = PyInt(7) /\ fld.had = PyStr(4)
  /\ fld.ret = PyStr(4) /\ fld.stored = PyInt(4)

\* What one get_context of an enumerator field has done
EnumeratedFrom ==
  /\ fld.had = Absent =>
        fld.err = "none" /\ fld.ret = PyInt(fld.field.start)
  /\ fld.had[1] \in {"int", "float"} =>
        fld.err = "none" /\ fld.ret = << fld.had[1], fld.had[2] + 1 >>
  /\ fld.err = "none" =>
        fld.context[fld.field.ctx] = fld.ret /\ fld.stored = fld.ret

\* Two get_context calls in a row against one dictionary
NextNumber ==
  (fld.op = "get_context" /\ fld.err = "none" /\ fld'.op = "get_context")
    => fld'.err = "none" /\ fld'.ret = << fld.ret[1], fld.ret[2] + 1 >>

\* C6: get_context on an enumerator field does not depend on the stored value:
\* with the key absent from the dictionary it returns the starting number,
\* with a number v under the key it returns v + 1; the number returned is
\* recorded in the dictionary and stored in the instance.  Successive calls
\* against one dictionary return consecutive numbers.
C6_Enumerator ==
  /\ [](fld.op = "get_context" /\ fld.field.kind = "enum" => EnumeratedFrom)
  /\ [][fld.field.kind = "enum" => NextNumber]_vars

\* Over a hand-set 7 and a dictionary holding 0 the enumerator gave 1
C6_Witness ==
  /\ fld.op = "get_context" /\ fld.field.kind = "enum" /\ fld.err = "none"
  /\ fld.before = PyInt(7) /\ fld.had = PyInt(0)
  /\ fld.ret = PyInt(1) /\ fld.stored = PyInt(1) /\ fld.context[fld.field.ctx] = PyInt(1)

\* The batches of the log before position i were empty: no row has yet drawn
\* a number from the context dictionary
NoRowBefore(i) ==
  \A h \in 1..(i - 1) : log[h].kind = "INSERTMANY" => log[h].batch = << >>

\* Row j of the batch, and of the list it was made from, carries start + j - 1
\* in every enumerator field
Enumerated(m, batch, rows) ==
  \A j \in 1..Len(batch), c \in 1..Len(Fields(m)) :
    Fields(m)[c].kind = "enum" =>
      /\ batch[j][c] = PyInt(Fields(m)[c].start + j - 1)
      /\ rows[j][c] = PyInt(Fields(m)[c].start + j - 1)

\* C7: in insert_existing and insert_new, the batch of a RowCollection member
\* whose enumerator key no earlier row of the operation has used holds every
\* row of the member, the i-th with enumerator value start + i - 1, whatever
\* the rows stored before -- and so again when the instance is inserted a
\* second time.
C7_RowEnumeration ==
  res.op \in InsertOps =>
    \A i \in LogIdx :
      (log[i].kind = "INSERTMANY" /\ NoRowBefore(i))
        => /\ Len(log[i].batch) = Len(txn.mem[log[i].member])
           /\ Enumerated(log[i].member, log[i].batch, txn.mem[log[i].member])

\* The second insert of one instance returned, its first RowCollection full
C7_Witness ==
  /\ res.op \in InsertOps /\ res.inserts = 2 /\ res.err = "none"
  /\ \E i \in LogIdx :
       /\ log[i].kind = "INSERTMANY" /\ log[i].member = "l1"
       /\ Len(log[i].batch) = MaxRows
       /\ log[i].batch[MaxRows][2] = PyInt(StartingNumber + MaxRows - 1)

\* The second RowCollection shares the key of the first: its row was numbered on
ContinuedCount ==
  /\ res.op \in InsertOps /\ res.err = "none"
  /\ \E i \in LogIdx :
       /\ log[i].kind = "INSERTMANY" /\ log[i].member = "l2"
       /\ log[i].batch # << >>
       /\ log[i].batch[1][2] = PyInt(StartingNumber + MaxRows)

\* The calls of SQLSequence.nextval the operation made (each is one UPDATE of
\* the sequence table and one SELECT of the new value)
NextvalCalls == Count("UPDATE_SEQ")

\* The step is one of the four operations other than insert_new
OtherThanInsertNew ==
  res'.op \in {"insert_existing", "update", "delete", "context_select"}

\* C8: insert_new calls nextval exactly once for the transaction's one
\* sequence-linked context field; insert_existing, update, delete and
\* context_select never call it, and leave the sequence as it was.
C8_OnlyInsertNewAdvances ==
  /\ [](res.op = "insert_new" => NextvalCalls = 1 /\ Count("SELECT_SEQ") = 1)
  /\ [](res.op \in AllOps \ {"insert_new"} => NextvalCalls = 0 /\ Count("SELECT_SEQ") = 0)
  /\ [][OtherThanInsertNew => seq' = seq]_vars

\* An insert_new returned: the instance holds the number drawn, the sequence moved on
C8_Witness ==
  /\ res.op = "insert_new" /\ res.err = "none" /\ NextvalCalls = 1
  /\ txn.fields.tid = PyInt(SeqLastval(seq))
  /\ seq[1].nextval = SeqStart + SeqInterval

\* A context_select, with the sequence-linked field set, after the sequence has moved
ReadAfterAdvance ==
  /\ res.op = "context_select" /\ res.err = "none" /\ txn.fields.tid # None
  /\ seq[1].nextval = SeqStart + SeqInterval

\* Place of a member in the order insert uses: cls._records in declaration
\* order, then cls._recordlists in declaration order
InsertPlace(m) ==
  CASE m = "r1" -> 1 [] m = "r2" -> 2 [] m = "l1" -> 3 [] m = "l2" -> 4 [] OTHER -> 0

\* The statements the operation issued for member rows, in the order issued
MemberStatements == SelectSeq(log, LAMBDA s : s.kind \in MemberKinds)

\* C9: in insert_existing and insert_new the member statements are issued in
\* declaration order, every Row member before any RowCollection member: an
\* execute of INSERT for a Row member, an executemany for a RowCollection
\* member, at most one per member; and when the operation returned, one for
\* every Row member that is set and one for every RowCollection member.
C9_InsertOrder ==
  res.op \in InsertOps =>
    /\ \A i \in 1..Len(MemberStatements) :
         /\ MemberStatements[i].kind =
              IF InSeq(MemberStatements[i].member, RecordNames) THEN "INSERT" ELSE "INSERTMANY"
         /\ \A j \in 1..Len(MemberStatements) :
              i < j => InsertPlace(MemberStatements[i].member)
                         < InsertPlace(MemberStatements[j].member)
    /\ res.err = "none" =>
         \A m \in Members :
           (InSeq(m, RecordListNames) \/ txn.mem[m] # Unset)
             => \E i \in 1..Len(MemberStatements) : MemberStatements[i].member = m

\* An insert that returned after INSERT r1, INSERT r2, executemany l1, executemany l2
C9_Witness ==
  /\ res.op \in InsertOps /\ res.err = "none"
  /\ [i \in 1..Len(MemberStatements) |-> MemberStatements[i].member]
       = << "r1", "r2", "l1", "l2" >>
  /\ Len(txn.mem.l1) = MaxRows

\* C10: in update and delete the member statements are issued in the exact
\* reverse of the order of insert: the rows of the RowCollection members, the
\* members in reverse declaration order, and only then the Row members, in
\* reverse declaration order; each is an execute of the operation's statement.
C10_ReverseOrder ==
  res.op \in WriteOps =>
    /\ \A i \in 1..Len(MemberStatements) :
         /\ MemberStatements[i].kind = (IF res.op = "update" THEN "UPDATE" ELSE "DELETE")
         /\ \A j \in 1..Len(MemberStatements) :
              i < j => InsertPlace(MemberStatements[i].member)
                         >= InsertPlace(MemberStatements[j].member)
    /\ res.err = "none" =>
         \A m \in Members :
           Cardinality({ i \in 1..Len(MemberStatements) : MemberStatements[i].member = m })
             = IF InSeq(m, RecordListNames) THEN Len(txn.mem[m])
               ELSE IF txn.mem[m] # Unset THEN 1 ELSE 0

\* An update or delete that returned after the row of l2, the rows of l1, r2, r1
C10_Witness ==
  /\ res.op \in WriteOps /\ res.err = "none"
  /\ Len(MemberStatements) = MaxRows + 3
  /\ MemberStatements[1].member = "l2"
  /\ \A i \in 2..(MaxRows + 1) : MemberStatements[i].member = "l1"
  /\ MemberStatements[MaxRows + 2].member = "r2"
  /\ MemberStatements[MaxRows + 3].member = "r1"

\* The context dictionary a _context_select about to run will select by
SelectContext == PlainContextOf(txn)

\* What the cursor returns for member m's context-scoped SELECT, in cursor order
Returned(m) ==
  DbSelect(db[m], WhereIdx(m, SelectContext), WhereVals(m, SelectContext, WhereIdx(m, SelectContext)))

\* The step is a _context_select that returned
SelectReturns == res'.op = "context_select" /\ res'.err = "none"

\* Afterwards a Row member holds the first tuple returned, or nulls when none
\* was; a RowCollection member holds the tuples returned, in cursor order
Repopulated ==
  /\ \A m \in {"r1", "r2"} :
       txn'.mem[m] = IF Returned(m) # << >> THEN Returned(m)[1] ELSE NewRow(m)
  /\ \A m \in {"l1", "l2"} : txn'.mem[m] = Returned(m)

\* C11 as stated: a context_select that returns repopulates every member from
\* what its SELECT returned, keeping nothing it held before, and a second
\* context_select straight after one that returned leaves the members as the
\* first left them.
C11_RepopulatesAndRepeats ==
  [][SelectReturns =>
       /\ Repopulated
       /\ res.op = "context_select" => txn'.mem = txn.mem]_vars

\* C11 amended: the same, the second call leaving the members as the first
\* left them when the first call's post-select hook changed no context field.
C11_Repopulates ==
  [][SelectReturns =>
       /\ Repopulated
       /\ (res.op = "context_select" /\ ~res.filled) => txn'.mem = txn.mem]_vars

\* A second context_select in a row returned, on an instance whose lists
\* were full from the first
C11_Witness ==
  /\ res.op = "context_select" /\ res.err = "none" /\ res.selects = 2
  /\ Len(txn.mem.l1) = MaxRows /\ txn.mem.r1 # NewRow("r1")

\* The first call had back-filled tid from the rows read without a tid; the
\* second call, selecting by that tid, returned with fewer rows in l1 than
\* the table holds
NarrowedByBackFill ==
  /\ res.op = "context_select" /\ res.err = "none" /\ res.selects = 2
  /\ txn.fields.tid # None
  /\ Len(txn.mem.l1) = MaxRows /\ Len(db.l1) = 2 * MaxRows

\* The context keys the fields of type m declare, and the keys a dictionary gives
DeclaredKeys(m) == { Fields(m)[i].ctx : i \in 1..Len(Fields(m)) } \ {NoCtx}
KeysGiven(context) == { k \in ContextKeys : context[k] # Absent }

\* The fields of the called type whose declared key the dictionary gave
Constrained == { i \in 1..Len(Fields(rec.m)) : Fields(rec.m)[i].ctx \in KeysGiven(rec.had) }

\* C12: _context_select_sql with allow_unlimited=False raises
\* UnconstrainedWhereError exactly when the dictionary gives none of the keys
\* the type's fields declare (so for the empty dictionary); when it returns,
\* the WHERE clause has one equality per field whose key is given, in field
\* declaration order, and the parameters are the dictionary's values for
\* them in that order.
C12_NoUnlimitedSelect ==
  rec.op = "context_select_sql" =>
    /\ rec.out.err \in {"none", "UnconstrainedWhereError"}
    /\ rec.out.err = "UnconstrainedWhereError"
         <=> (~rec.allow /\ DeclaredKeys(rec.m) \cap KeysGiven(rec.had) = {})
    /\ rec.out.err = "none" =>
         /\ Len(rec.out.cols) = Cardinality(Constrained)
         /\ Len(rec.out.vals) = Len(rec.out.cols)
         /\ \A j \in 1..Len(rec.out.cols) :
              /\ rec.out.cols[j] \in Constrained
              /\ \A k \in 1..Len(rec.out.cols) : j < k => rec.out.cols[j] < rec.out.cols[k]
              /\ rec.out.vals[j] = rec.had[Fields(rec.m)[rec.out.cols[j]].ctx]
    /\ ~rec.allow /\ rec.out.err = "none" => rec.out.cols # << >>

\* A select that may not be unlimited was refused for a dictionary that
\* gave only a key the type does not declare
C12_Witness ==
  /\ rec.op = "context_select_sql" /\ ~rec.allow
  /\ rec.out.err = "UnconstrainedWhereError" /\ rec.m = "r1"
  /\ KeysGiven(rec.had) = {"ref"}

\* A select that may not be unlimited was built with two equalities
SelectByTwoKeys ==
  /\ rec.op = "context_select_sql" /\ ~rec.allow
  /\ rec.out.err = "none" /\ rec.m = "l1" /\ rec.out.cols = <<1, 2>>

\* The last call was _update_sql or _delete_sql without a context dictionary
\* (None or {}), so that the primary-key values are the instance's own
KeyedCall == rec.op \in {"update_sql", "delete_sql"} /\ rec.had = EmptyContext

\* The values the instance held in its primary-key and other columns
KeyValues == [j \in 1..Len(PrimaryKey(rec.m)) |-> rec.before[PrimaryKey(rec.m)[j]]]
OtherValues == [j \in 1..Len(NonPkIdx(rec.m)) |-> rec.before[NonPkIdx(rec.m)[j]]]

\* The statement returned is scoped by the whole primary key: one WHERE
\* value per key column, the key's values, and in an UPDATE the SET values
\* are those of the other columns only
KeyScoped ==
  /\ rec.out.err = "none"
  /\ rec.out.pk = KeyValues
  /\ rec.op = "update_sql" => rec.out.set = OtherValues

\* C13: _update_sql and _delete_sql raise UnconstrainedWhereError when the
\* type has no primary key or a primary-key column holds None; when there is
\* a primary key and none of its columns holds None they return a statement
\* with one WHERE equality per primary-key column, the key's values as the
\* trailing parameters, and no primary-key column in the SET list.
C13_PrimaryKeyScoped ==
  KeyedCall =>
    IF PrimaryKey(rec.m) = << >> \/ \E j \in 1..Len(KeyValues) : KeyValues[j] = None
      THEN rec.out.err = "UnconstrainedWhereError"
      ELSE KeyScoped

\* What the code does: the statement is returned when every primary-key
\* value is true in Python's sense, and refused also for 0
PrimaryKeyScopedWhenTrue ==
  KeyedCall =>
    IF PrimaryKey(rec.m) = << >> \/ \E j \in 1..Len(KeyValues) : ~Truthy(KeyValues[j])
      THEN rec.out.err = "UnconstrainedWhereError"
      ELSE KeyScoped

\* An UPDATE of the row whose primary key is 0 was refused
ZeroKeyRefused ==
  /\ KeyedCall /\ rec.op = "update_sql" /\ rec.m = "r1"
  /\ rec.before = << PyInt(0), PyInt(2) >>
  /\ rec.out.err = "UnconstrainedWhereError"

\* Where the sequence was last restarted: the place in the log of the last
\* INSERT of a create or UPDATE of a reset, 0 when only the first create was run
Restarts == { i \in 1..Len(log) : log[i].kind \in {"INSERT_SEQ", "RESET_SEQ"} }
LastRestart == IF Restarts = {} THEN 0 ELSE CHOOSE i \in Restarts : \A j \in Restarts : j <= i

\* The nextval calls made since, and whether the restart was the create of a
\* sequence that did not exist or a reset
CallsSince ==
  Cardinality({ i \in (LastRestart + 1)..Len(log) : log[i].kind = "UPDATE_SEQ" })
CreatedOrReset == LastRestart = 0 \/ log[LastRestart].kind = "RESET_SEQ"

\* The last call on the cursor was a nextval; what it returned
IsNextval(lg) == lg # << >> /\ lg[Len(lg)].kind = "SELECT_SEQ"
ReturnedBy(lg) == lg[Len(lg)].batch[1][2]

\* C14: after the create of a sequence that did not exist, or after a reset,
\* the k-th nextval returns start + (k-1)*interval; two nextval calls in a
\* row return different values when interval is not 0; and the nextval after
\* a reset returns start, however many nextval calls came before.
C14_SequenceCounter ==
  /\ [](IsNextval(log) /\ CreatedOrReset
          => ReturnedBy(log) = seq[1].start + (CallsSince - 1) * seq[1].interval)
  /\ [][IsNextval(log) /\ IsNextval(log') /\ seq[1].interval # 0
          => ReturnedBy(log') # ReturnedBy(log)]_vars
  /\ [][log # << >> /\ log[Len(log)].kind = "RESET_SEQ" /\ IsNextval(log')
          => ReturnedBy(log') = seq[1].start]_vars

\* Three nextval calls, a reset and two more on the sequence that starts at
\* 2 and steps by 3: the last returned 5
C14_Witness ==
  /\ IsNextval(log) /\ LastRestart = 7 /\ log[7].kind = "RESET_SEQ" /\ CallsSince = 2
  /\ seq[1].start = 2 /\ seq[1].interval = 3 /\ ReturnedBy(log) = 5

\* The references a transaction object's list holds, and the values in its
\* context field, its record and the rows of its list
ItemsOf(h, k) == h.lists[h.txns[k].l].items
View(h, k) ==
  [tid |-> h.txns[k].tid,
   r |-> IF h.txns[k].r = 0 THEN 0 ELSE h.rows[h.txns[k].r].val,
   l |-> [n \in 1..Len(ItemsOf(h, k)) |-> h.rows[ItemsOf(h, k)[n]].val]]

\* Every element of every list is an instance of the list's record type
Homogeneous ==
  \A j \in 1..2 : \A n \in 1..Len(heap.lists[j].items) :
    heap.rows[heap.lists[j].items[n]].type = "Jrn"

\* C15: through the constructor, append, extend, insert, set-item,
\* delete-item, clear and copy every element of a record list is an instance
\* of its record type; an append, insert or set-item given a value of another
\* type, and an extend (or constructor) given any, raises ValueError, and the
\* call that raises ValueError leaves every list as it was.
C15_Homogeneity ==
  /\ [](/\ Homogeneous
        /\ heap.last.op \in {"new", "append", "extend", "insert", "setitem"}
             => (heap.last.bad <=> heap.last.err = "ValueError"))
  /\ [][heap'.last.err = "ValueError"
          => /\ heap'.lists = heap.lists /\ heap'.rows = heap.rows
             /\ heap'.txns = heap.txns]_vars

\* An extend given a row of the right type and one of another raised
\* ValueError on a list that held a row
C15_Witness ==
  /\ heap.last.op = "extend" /\ heap.last.bad /\ heap.last.err = "ValueError"
  /\ Len(ItemsOf(heap, heap.last.who)) = 1

\* The step is op, called on a list that held old and holds new afterwards
ListStep(op) == heap'.last.op = op /\ heap'.last.err = "none"
Before == ItemsOf(heap, heap'.last.who)
After == ItemsOf(heap', heap'.last.who)

\* C16: deleting index i of a list of length n leaves n-1 rows, the others in
\* their order; inserting at index i leaves n+1 rows, the new one at
\* position i and the others in their order; the per-field accessor of the
\* list yields the field's value of each row in list order.
C16_OrderPreserved ==
  /\ [][ListStep("delitem") =>
          /\ Len(After) = Len(Before) - 1
          /\ \A j \in 1..Len(After) :
               After[j] = Before[IF j <= heap'.last.idx THEN j ELSE j + 1]]_vars
  /\ [][ListStep("insert") =>
          /\ Len(After) = Len(Before) + 1
          /\ \A j \in 1..Len(Before) : Before[j] # After[heap'.last.idx + 1]
          /\ \A j \in 1..Len(Before) :
               After[IF j <= heap'.last.idx THEN j ELSE j + 1] = Before[j]]_vars
  /\ [](heap.last.op = "field" =>
          /\ Len(heap.last.ret) = Len(ItemsOf(heap, heap.last.who))
          /\ \A n \in 1..Len(heap.last.ret) :
               heap.last.ret[n] = heap.rows[ItemsOf(heap, heap.last.who)[n]].val)

\* A row was inserted at index 0 of a list that held one
C16_Witness ==
  /\ heap.last.op = "insert" /\ heap.last.err = "none" /\ heap.last.idx = 0
  /\ Len(ItemsOf(heap, heap.last.who)) = 2

\* The objects a transaction object refers to
ObjectsOf(h, k) ==
  ({ h.txns[k].r } \ {0}) \cup { ItemsOf(h, k)[n] : n \in 1..Len(ItemsOf(h, k)) }

\* C17: the copy of a transaction holds the original's context field values
\* and, for its record and its record list, distinct objects with equal
\* field values (the list of the same length, each element a distinct copy);
\* after that an assignment to a context field or to a field of a member
\* row, or a clear of the list, through one of the two leaves the other as
\* it was; "y = x" makes y the original itself.
C17_DeepCopy ==
  /\ [](heap.last.op = "copy" =>
          /\ heap.y = 2 /\ View(heap, 2) = View(heap, 1)
          /\ heap.txns[2].l # heap.txns[1].l
          /\ ObjectsOf(heap, 2) \cap ObjectsOf(heap, 1) = {}
          /\ Cardinality(ObjectsOf(heap, 2)) = Cardinality(ObjectsOf(heap, 1)))
  /\ [][heap.y = 2 /\ heap'.last.op \in {"set_tid", "set_field", "clear"}
          => View(heap', 3 - heap'.last.who) = View(heap, 3 - heap'.last.who)]_vars
  /\ [](heap.last.op = "alias" => heap.y = 1)

\* A field of a row of the copy's list was assigned: the copy differs from
\* the original in that row only
C17_Witness ==
  /\ heap.y = 2 /\ heap.last.op = "set_field" /\ heap.last.who = 2 /\ heap.last.idx = 1
  /\ heap.txns[1].r # 0
  /\ View(heap, 1) = [tid |-> 1, r |-> 1, l |-> <<1>>]
  /\ View(heap, 2) = [tid |-> 1, r |-> 1, l |-> <<2>>]

\* _get_context called on the instance as it is, on a cursor with nothing logged
PlainContextBuilt == GetPlainContext(Start(txn, db, seq), ContextFieldNames)

\* Building it raises nothing, makes no cursor call and leaves the instance,
\* its members and the database as they were
BuiltAside(st) ==
  st.err = "none" /\ st.log = << >> /\ st.txn = txn /\ st.db = db /\ st.seq = seq

\* C18: the dictionary _get_context builds has an entry for a context field
\* if and only if the field's stored value is not None, and the entry is the
\* stored value; building it makes no cursor call and changes no stored value
\* of the transaction or of its members.
C18_PlainContext ==
  LET Built(st) ==
        /\ BuiltAside(st)
        /\ \A i \in 1..Len(ContextFieldNames) :
             /\ HasKey(st.context, ContextFieldNames[i]) <=> txn.fields[ContextFieldNames[i]] # None
             /\ HasKey(st.context, ContextFieldNames[i])
                  => st.context[ContextFieldNames[i]] = txn.fields[ContextFieldNames[i]]
  IN Built(PlainContextBuilt)

\* What the code does: the entry is there if and only if the stored value is
\* true in Python's sense, so not for 0
PlainContextOfTrueValues ==
  LET Built(st) ==
        /\ BuiltAside(st)
        /\ \A i \in 1..Len(ContextFieldNames) :
             /\ HasKey(st.context, ContextFieldNames[i]) <=> Truthy(txn.fields[ContextFieldNames[i]])
             /\ HasKey(st.context, ContextFieldNames[i])
                  => st.context[ContextFieldNames[i]] = txn.fields[ContextFieldNames[i]]
  IN Built(PlainContextBuilt)

\* An insert_existing of Txn(ref=0) built its context without ref and raised
\* ContextRequiredError at the row that takes ref from the context
ZeroLeftOut ==
  /\ res.op = "insert_existing" /\ txn.fields.ref = PyInt(0)
  /\ ~HasKey(PlainContextBuilt.context, "ref")
  /\ res.err = "ContextRequiredError"

\* _verify was reached by the operation: the hook before it let it through
\* and nothing had raised before it was called
VerifyRan == res.op \in AllOps /\ res.verified # "-" /\ res.err \in {"none", "VerificationError"}

\* The operation raised VerificationError, a write before any member statement
Refused ==
  /\ res.err = "VerificationError"
  /\ res.op \in InsertOps \cup WriteOps => \A i \in LogIdx : log[i].kind \notin MemberKinds

\* C19: in insert_existing, insert_new, update, delete and context_select a
\* _verify result that is False or a string raises VerificationError, and in
\* the four that write no member statement is executed.
C19_VerifyAsHooks ==
  (VerifyRan /\ res.verified \in {"False", "str"}) => Refused

\* What the code does: only a result that is false in Python's sense is refused
VerifyFalseRefused ==
  /\ (VerifyRan /\ res.verified = "False") => Refused
  /\ (VerifyRan /\ res.verified = "str") => res.err = "none"

\* _verify returned a string and insert_existing went on to insert every member
StringVerified ==
  /\ res.op = "insert_existing" /\ res.verified = "str" /\ res.err = "none"
  /\ Len(MemberStatements) = 4


\* ------------------------------------------------------------------------
\* Missing context (SQLField.get_context, RowEnumIntField.get_context)

\* The rows a member holds: one for a set record, the list's rows otherwise
RowsOf(m) ==
  IF m \in {"r1", "r2"} THEN (IF txn.mem[m] = Unset THEN << >> ELSE << txn.mem[m] >>)
  ELSE txn.mem[m]

\* The field declares a context key that the transaction's context lacks
Lacking(f) == f.ctx # NoCtx /\ ~HasKey(ContextNow, f.ctx)

\* get_context of every such field of the given kinds, on every member row,
\* raises ContextRequiredError and leaves the row's value as it was
MissingRaises(kinds) ==
  \A m \in Members : \A n \in 1..Len(RowsOf(m)) : \A i \in 1..Len(Fields(m)) :
    (Fields(m)[i].kind \in kinds /\ Lacking(Fields(m)[i]))
      => LET Raised(g) == g.err = "ContextRequiredError" /\ g.stored = RowsOf(m)[n][i]
         IN Raised(GetContext(Fields(m)[i], RowsOf(m)[n][i], ContextNow))

\* The fields of a row that the operation asks for their value: _delete_sql
\* asks the primary key columns only, the other operations every field
Asked(op, m) ==
  IF op = "delete" THEN {PrimaryKey(m)[j] : j \in 1..Len(PrimaryKey(m))}
  ELSE 1..Len(Fields(m))

\* Some member row has a field of the given kinds that the operation asks
\* and whose key is missing
NeedsMissing(kinds) ==
  \E m \in Members : \E n \in 1..Len(RowsOf(m)) : \E i \in Asked(res.op, m) :
    Fields(m)[i].kind \in kinds /\ Lacking(Fields(m)[i])

\* An operation that got as far as its member rows and met such a field
\* ended in ContextRequiredError
MissingAborts(kinds) ==
  (/\ res.op \in InsertOps \cup WriteOps
   /\ res.hook = "True" /\ res.verified \in {"True", "str"}
   /\ NeedsMissing(kinds))
    => res.err = "ContextRequiredError"

\* C20: get_context on a field that declares a context key raises
\* ContextRequiredError when the dictionary lacks the key and leaves the
\* stored value unchanged, so a transaction operation with a member row that
\* needs a missing key aborts with that error.
C20_MissingContext ==
  MissingRaises({"int", "enum", "seq"}) /\ MissingAborts({"int", "enum", "seq"})

\* C20 as the code has it: this holds of the fields that are not
\* enumerators; RowEnumIntField starts its numbering when the key is missing
C20_MissingPlainContext ==
  MissingRaises({"int", "seq"}) /\ MissingAborts({"int", "seq"})

\* An insert_existing of a transaction whose tid is None stopped with
\* ContextRequiredError at the first row, which still holds its own value
C20_Witness ==
  /\ res.op = "insert_existing" /\ res.err = "ContextRequiredError"
  /\ txn.fields.tid = None /\ ~HasKey(ContextNow, "tid")
  /\ txn.mem.r1 # Unset /\ txn.mem.r1[1] # None

\* A row enumerator whose key is missing starts the numbering instead
EnumeratorStarts ==
  \A n \in 1..Len(txn.mem.l1) : \A i \in 1..Len(Fields("l1")) :
    (Fields("l1")[i].kind = "enum" /\ Lacking(Fields("l1")[i]))
      => LET Started(g) == g.err = "none" /\ g.ret = PyInt(Fields("l1")[i].start)
         IN Started(GetContext(Fields("l1")[i], txn.mem.l1[n][i], ContextNow))

\* ------------------------------------------------------------------------
\* Single-value results (SQLQuery._result_singlevalue)

\* The executed query's result is exactly one row of exactly one column
OneByOne == Len(cur.result) = 1 /\ Len(cur.result[1]) = 1

\* C21: _result_singlevalue returns a value only when the executed query's
\* result is exactly one row with exactly one column; for an empty result, a
\* result of more than one row or a row of more than one column it raises.
C21_SingleValue ==
  cur.out.op = "singlevalue" => (~OneByOne => cur.out.err = "ValueError")

\* C21 as the code has it: the call fetches the next row of the result and
\* returns its only column; it raises ValueError when no row is left or when
\* that row has not exactly one column, however many rows the result has
C21_NextRowSingleValue ==
  cur.out.op = "singlevalue" =>
    /\ cur.out.err \in {"none", "ValueError"}
    /\ cur.out.err = "none" <=> (cur.out.row # NoRow /\ Len(cur.out.row) = 1)
    /\ cur.out.err = "none" => cur.out.ret = cur.out.row[1]
    /\ \E k \in 1..(Len(cur.result) + 1) :
         /\ cur.rest = SubSeq(cur.result, k + 1, Len(cur.result))
         /\ cur.out.row = IF k <= Len(cur.result) THEN cur.result[k] ELSE NoRow

\* The second row of a two-row result was returned
C21_Witness ==
  /\ cur.out.op = "singlevalue" /\ cur.out.err = "none"
  /\ Len(cur.result) = 2 /\ cur.rest = << >>
  /\ cur.out.ret = cur.result[2][1]

\* ------------------------------------------------------------------------
\* Assignment to a field (SQLField.__set__, AbstractIntField.convert)

\* What an int field accepts for a value that is not None: an int as it is,
\* a string of digits as the int it spells
Accepted(v) ==
  CASE v[1] = "int" -> v
    [] v[1] = "str" -> PyInt(v[2])
    [] OTHER -> Absent

\* C22: assigning None to a field that is not nullable raises, assigning a
\* value that is neither an int nor convertible to one raises, and in both
\* cases the stored value stays as it was; after an assignment that
\* succeeded the field reads as the accepted, possibly converted, value.
C22_AssignmentValidated ==
  fld.op = "set" =>
    /\ (fld.arg = None /\ ~fld.field.nullable) => fld.err # "none"
    /\ (fld.arg # None /\ Accepted(fld.arg) = Absent) => fld.err # "none"
    /\ fld.err # "none" => fld.stored = fld.before
    /\ fld.err = "none" =>
         fld.stored = IF fld.arg = None THEN None ELSE Accepted(fld.arg)

\* None was refused by a field that is not nullable and held 7, and still
\* holds it
C22_Witness ==
  /\ fld.op = "set" /\ fld.arg = None /\ ~fld.field.nullable
  /\ fld.err = "TypeError" /\ fld.before = PyInt(7) /\ fld.stored = PyInt(7)

\* A string of digits was stored as the int it spells
ConvertedOnAssignment ==
  /\ fld.op = "set" /\ fld.arg = PyStr(4) /\ fld.err = "none"
  /\ fld.stored = PyInt(4)

\* ------------------------------------------------------------------------
\* Numeric acceptance (NumericField.convert)

\* The digits after the point that a Decimal's value needs: those it is
\* written with, less the trailing zeros
RECURSIVE FracNeeded(_)
FracNeeded(d) ==
  IF d[3] > 0 /\ d[2] % 10 = 0 THEN FracNeeded(Dec(d[2] \div 10, d[3] - 1)) ELSE d[3]

\* The value in units of 10^-s, digits beyond them cut off
ScaledFloor(d, s) ==
  IF d[3] <= s THEN d[2] * Pow10(s - d[3]) ELSE d[2] \div Pow10(d[3] - s)

\* Two Decimals of the same numerical value
SameValue(a, b) == a[2] * Pow10(b[3]) = b[2] * Pow10(a[3])

DecimalAssigned == num.op = "set" /\ num.arg[1] = "dec"

NumericRejected == num.err # "none" /\ num.stored = num.before

\* C23: NumericField(precision p, scale s) stores a Decimal that needs at
\* most s digits after the point and at most p digits once quantized with
\* its value unchanged; it rejects a Decimal that needs more than s digits
\* after the point unless inexact_quantize is set, a Decimal whose quantized
\* form needs more than p digits whether or not inexact_quantize is set, and
\* a float unless allow_floats is set.
C23_NumericAcceptance ==
  /\ (DecimalAssigned /\ FracNeeded(num.arg) <= num.field.scale
        /\ Digits(ScaledFloor(num.arg, num.field.scale)) <= num.field.precision)
       => (num.err = "none" /\ num.stored[1] = "dec" /\ SameValue(num.stored, num.arg))
  /\ (DecimalAssigned /\ FracNeeded(num.arg) > num.field.scale
        /\ ~num.field.inexact_quantize)
       => NumericRejected
  /\ (DecimalAssigned
        /\ Digits(ScaledFloor(num.arg, num.field.scale)) > num.field.precision)
       => NumericRejected
  /\ (num.op = "set" /\ num.err = "none" /\ num.stored # None)
       => (Digits(num.stored[2]) <= num.field.precision
             /\ num.stored[3] = num.field.scale)
  /\ (num.op = "set" /\ num.arg[1] = "float" /\ ~num.field.allow_floats)
       => NumericRejected

\* Decimal('0.12') was refused by a field of scale 1 without inexact_quantize
\* that held 0.5, and the field still holds it
C23_Witness ==
  /\ DecimalAssigned /\ num.arg = Dec(12, 2) /\ ~num.field.inexact_quantize
  /\ num.err = "Inexact" /\ num.before = Dec(5, 1) /\ num.stored = Dec(5, 1)

\* Decimal('0.95') was refused with inexact_quantize set: it rounds to 1.0,
\* which needs two digits
RoundedOutOfPrecision ==
  /\ DecimalAssigned /\ num.arg = Dec(95, 2) /\ num.field.inexact_quantize
  /\ num.err = "InvalidOperation"

\* A float was stored by a field with allow_floats set
FloatAccepted ==
  /\ num.op = "set" /\ num.arg = PyFloat(0) /\ num.field.allow_floats
  /\ num.err = "none" /\ num.stored = Dec(5, 1)

\* An inexact assignment went through: inexact_quantize is set and the value
\* needs more digits after the point than the scale
InexactStored ==
  /\ DecimalAssigned /\ num.field.inexact_quantize /\ num.err = "none"
  /\ FracNeeded(num.arg) > num.field.scale

\* C24: with inexact_quantize set and no rounding mode given, a value with
\* more digits after the point than the scale is stored truncated to the
\* scale, the excess digits discarded.
C24_Truncates ==
  InexactStored => num.stored = Dec(ScaledFloor(num.arg, num.field.scale), num.field.scale)

\* What the code does: the stored value is the multiple of 10^-s nearest to
\* the input (at most half a unit away), above it as well as below
C24_RoundsToNearest ==
  InexactStored =>
    LET unit == Pow10(num.arg[3] - num.field.scale)
        diff == num.stored[2] * unit - num.arg[2]
    IN num.stored[3] = num.field.scale /\ 2 * diff <= unit /\ -2 * diff <= unit

\* Decimal('0.16') was stored as 0.2, not as 0.1
RoundedUp ==
  /\ InexactStored /\ num.arg = Dec(16, 2) /\ num.stored = Dec(2, 1)

\* ------------------------------------------------------------------------
\* The default post-select back-fill (SQLTransaction._post_select_hook)

\* The values that the members hold, after the step, in fields whose context
\* key is k
HeldAfter(k) ==
  LET Rows(m) == IF m \in {"r1", "r2"} THEN << txn'.mem[m] >> ELSE txn'.mem[m]
  IN { Rows(m)[n][i] : <<m, n, i>> \in
         { x \in Members \X (1..(2 * MaxRows)) \X (1..3) :
             /\ x[2] <= Len(Rows(x[1])) /\ x[3] <= Len(Fields(x[1]))
             /\ Fields(x[1])[x[3]].ctx = k
             /\ Rows(x[1])[x[2]][x[3]] # None } }

\* The rows the members hold after the step, in the order in which
\* _get_context_from_records scans them: the records, then the record lists,
\* each row with its member's name
ScannedAfter ==
  LET Named(m, rows) == [n \in 1..Len(rows) |-> [m |-> m, row |-> rows[n]]]
  IN << [m |-> "r1", row |-> txn'.mem.r1], [m |-> "r2", row |-> txn'.mem.r2] >>
       \o Named("l1", txn'.mem.l1) \o Named("l2", txn'.mem.l2)

\* The scanned rows that hold, in a field whose context key is k, a value
\* that is true in Python's sense, and the value the last of them holds
Holding(k) ==
  { n \in 1..Len(ScannedAfter) :
      \E i \in 1..Len(Fields(ScannedAfter[n].m)) :
        Fields(ScannedAfter[n].m)[i].ctx = k /\ Truthy(ScannedAfter[n].row[i]) }

LastHeld(k) ==
  LET n == CHOOSE x \in Holding(k) : \A y \in Holding(k) : y <= x
      i == CHOOSE j \in 1..Len(Fields(ScannedAfter[n].m)) :
             Fields(ScannedAfter[n].m)[j].ctx = k
  IN ScannedAfter[n].row[i]

\* The step is a _context_select that returned, its post-select hook the
\* default one
DefaultSelectReturns == SelectReturns /\ res'.hook = "True"

\* C25: after a context_select that returned with the default post-select
\* hook, a context field the caller had supplied keeps its value, a context
\* field that was not supplied and is the context key of a field holding a
\* value in a retrieved member is set to that value, and a context field for
\* which no retrieved member holds a value is left as it was.
C25_BackFill ==
  [][DefaultSelectReturns =>
       \A i \in 1..Len(ContextFieldNames) :
         LET k == ContextFieldNames[i]
         IN /\ txn.fields[k] # None => txn'.fields[k] = txn.fields[k]
            /\ txn.fields[k] = None => \A v \in HeldAfter(k) : txn'.fields[k] = v
            /\ HeldAfter(k) = {} => txn'.fields[k] = txn.fields[k]]_vars

\* C25 as the code has it: every context field for which some retrieved
\* member holds a true value is set to the value of the last such member in
\* scan order, the others are left as they were; a supplied value that is
\* true is thereby kept, every row having been selected by it.
C25_BackFillLastHeld ==
  [][DefaultSelectReturns =>
       \A i \in 1..Len(ContextFieldNames) :
         LET k == ContextFieldNames[i]
         IN /\ Holding(k) # {} => txn'.fields[k] = LastHeld(k)
            /\ Holding(k) = {} => txn'.fields[k] = txn.fields[k]
            /\ Truthy(txn.fields[k]) => txn'.fields[k] = txn.fields[k]]_vars

\* "Txn(ref=3)" read back with allow_unlimited: tid, not supplied, was set
\* from the rows, and ref kept the value given
C25_Witness ==
  /\ res.op = "context_select" /\ res.err = "none" /\ res.hook = "True"
  /\ res.selects = 1 /\ res.filled
  /\ txn.fields.ref = PyInt(3) /\ txn.fields.tid \in {PyInt(1), PyInt(2)}
  /\ txn.mem.r2[2] = PyInt(3)

\* The members disagree: the first record holds tid 1, the context field was
\* set to the tid 2 of the last row scanned
SetFromLastRow ==
  /\ res.op = "context_select" /\ res.err = "none" /\ res.hook = "True"
  /\ txn.mem.r1[1] = PyInt(1) /\ txn.fields.tid = PyInt(2)

\* "Txn(tid=1, ref=0)": the 0 given for ref was replaced by the 3 of the row
\* read by tid
ZeroGivenReplaced ==
  /\ res.op = "context_select" /\ res.err = "none" /\ res.hook = "True"
  /\ res.selects = 1 /\ txn.fields.tid = PyInt(1) /\ txn.fields.ref = PyInt(3)
  /\ txn.mem.r2 = << PyInt(1), PyInt(3) >>

\* ------------------------------------------------------------------------
\* The frame of context resolution

\* The context keys of a record type's row enumerators
EnumKeys(m) == { Fields(m)[i].ctx : i \in { j \in 1..Len(Fields(m)) : Fields(m)[j].kind = "enum" } }

\* The entries in which two dictionaries differ
Changed(c1, c2) == { k \in ContextKeys : c1[k] # c2[k] }

\* get_context of one field of the instance against the dictionary changes
\* no entry but the one under the field's own key, and none at all unless
\* the field is an enumerator
FieldFrame(i) ==
  LET f == Fields(rec.m)[i]
      Framed(g) ==
        /\ Changed(g.context, rec.context) \subseteq {f.ctx}
        /\ f.kind # "enum" => g.context = rec.context
  IN Framed(GetContext(f, rec.row[i], rec.context))

\* C26: resolving a field against a context dictionary changes no entry
\* other than the one under the field's own context key, and no entry at all
\* when the field is not an enumerator; so a call that resolves the fields of
\* a row changes only the entries of the row's enumerator keys.
C26_ContextFrame ==
  /\ \A i \in 1..Len(Fields(rec.m)) : FieldFrame(i)
  /\ rec.op \in {"update_sql", "delete_sql"}
       => Changed(rec.context, rec.had) \subseteq EnumKeys(rec.m)

\* _update_sql on a row with an enumerator, against a dictionary that gives
\* tid, ref and row_id: only row_id changed
C26_Witness ==
  /\ rec.op = "update_sql" /\ rec.m = "l1" /\ rec.out.err = "none"
  /\ rec.had = [tid |-> PyInt(1), ref |-> PyInt(1), row_id |-> PyInt(1)]
  /\ Changed(rec.context, rec.had) = {"row_id"}

\* ------------------------------------------------------------------------
\* Creating a sequence that exists (SQLSequence.create)

\* The step is a create of the sequence, which exists since Init
CreatesAgain ==
  /\ Len(log') = Len(log) + 2
  /\ log'[Len(log') - 1].kind = "CREATE_SEQ" /\ log'[Len(log')].kind = "INSERT_SEQ"

\* C27: create on a sequence that already exists leaves the counter's state
\* as it was, so that later nextval calls return what they would have
\* returned without it, and the counter still consists of one state record.
C27_CreateIfAbsent ==
  /\ [][CreatesAgain => seq' = seq]_vars
  /\ [](Len(seq) = 1)

\* What does hold: nextval returns what the first state record gives, which
\* the second create does not touch, counted from the last reset (or from
\* Init when there was none)
Resets == { i \in 1..Len(log) : log[i].kind = "RESET_SEQ" }
CallsSinceReset ==
  LET last == IF Resets = {} THEN 0 ELSE CHOOSE i \in Resets : \A j \in Resets : j <= i
  IN Cardinality({ i \in (last + 1)..Len(log) : log[i].kind = "UPDATE_SEQ" })

NextvalFromFirstRecord ==
  IsNextval(log)
    => ReturnedBy(log) = seq[1].start + (CallsSinceReset - 1) * seq[1].interval

\* After a nextval, a second create and another nextval the table holds two
\* state records, and they differ
SecondStateRecord ==
  /\ Len(seq) = 2 /\ IsNextval(log)
  /\ seq[1].interval = 1 /\ seq[1].lastval = seq[1].start + 1
  /\ seq[2].lastval = seq[2].start

\* ------------------------------------------------------------------------
\* A hook that returns None

\* Each operation, run from the present state with a hook that returns None,
\* ends exactly as with a hook that returns False
NoneAsFalse ==
  LET Same(a, b) == a = b
  IN /\ Same(InsertExistingRun(txn, db, seq, isolation, "None", "-"),
             InsertExistingRun(txn, db, seq, isolation, "False", "-"))
     /\ Same(InsertNewRun(txn, db, seq, isolation, "None", "-"),
             InsertNewRun(txn, db, seq, isolation, "False", "-"))
     /\ Same(UpdateRun(txn, db, seq, isolation, "None", "-"),
             UpdateRun(txn, db, seq, isolation, "False", "-"))
     /\ Same(DeleteRun(txn, db, seq, isolation, "None", "-"),
             DeleteRun(txn, db, seq, isolation, "False", "-"))
     /\ \A allow \in BOOLEAN :
          Same(ContextSelectRun(txn, db, seq, isolation, allow, "None", "-"),
               ContextSelectRun(txn, db, seq, isolation, allow, "False", "-"))

NoneAfterSelect ==
  /\ res.op = "context_select" /\ res.hook = "None" /\ res.err = "VerificationError"
  /\ \E i \in LogIdx : log[i].kind = "SELECT"

\* ------------------------------------------------------------------------
\* C29: set_values is all-or-nothing: whenever it raises ValueError (the
\* wrong number of positional values, an unknown field name among the
\* keyword values, or no values at all), no field of the row was modified.
\* The values passed are all acceptable to the fields, so a ValueError of
\* the call has one of these three causes.
\* ------------------------------------------------------------------------
SetValuesRaised == rec.op = "set_values" /\ rec.out.err = "ValueError"

C29_AllOrNothing == SetValuesRaised => rec.row = rec.before

\* What the code keeps: the positional form and the call without values
\* raise before the first assignment
PositionalAllOrNothing ==
  SetValuesRaised /\ rec.out.kwargs = << >> => rec.row = rec.before

\* and the keyword form has assigned exactly the fields named before the
\* first unknown name
KeywordsAssignedUpToUnknown ==
  SetValuesRaised /\ rec.out.kwargs # << >> =>
    \E k \in 1..Len(rec.out.kwargs) :
      /\ rec.out.kwargs[k][1] = 0
      /\ \A j \in 1..(k - 1) : rec.out.kwargs[j][1] # 0
      /\ \A i \in 1..Len(rec.row) :
           rec.row[i] = IF \E j \in 1..(k - 1) : rec.out.kwargs[j][1] = i
                        THEN PyInt(1) ELSE rec.before[i]

\* "r1.set_values(trans_id=1, nonesuch='test')": ValueError, trans_id is 1
AssignedBeforeUnknownName ==
  /\ SetValuesRaised
  /\ rec.m = "r1"
  /\ rec.out.kwargs = << <<1, PyInt(1)>>, <<0, PyInt(1)>> >>
  /\ rec.before = << None, None >>
  /\ rec.row = << PyInt(1), None >>

\* the wrong number of positional values leaves the row alone
WrongCountRefused ==
  /\ SetValuesRaised
  /\ rec.out.values # << >>
  /\ Len(rec.out.values) # Len(rec.row)
  /\ rec.row = rec.before

\* ------------------------------------------------------------------------
\* C30: in update and delete, for a RowCollection member whose Row type has
\* an enumerator field among its primary-key columns (starting number s,
\* the key not in the dictionary when the member's first statement is
\* built), the statement for the i-th row in list order carries s + i - 1 as
\* the WHERE value of the enumerator column; the number comes from the
\* dictionary's counter and is stored in the row, whatever the row stored
\* before the call.
\* ------------------------------------------------------------------------
IsWrite(i) == log[i].kind \in {"UPDATE", "DELETE"}

\* The WHERE values of a statement: the last values bound, one per key column
WhereValues(i) ==
  SubSeq(log[i].params,
         Len(log[i].params) - Len(PrimaryKey(log[i].member)) + 1,
         Len(log[i].params))

\* Statement i is the j-th the operation issued for its member
PlaceInMember(i) ==
  Cardinality({ h \in 1..i : IsWrite(h) /\ log[h].member = log[i].member })

\* No row of another member was written earlier in the operation
NoWriteBefore(i) == \A h \in 1..(i - 1) : IsWrite(h) => log[h].member = log[i].member

\* Every enumerator column of the key of statement i is bound to, and the
\* row stores, start + PlaceInMember(i) - 1 + skipped
NumberedFrom(i, skipped) ==
  \A k \in 1..Len(PrimaryKey(log[i].member)) :
    LET c == PrimaryKey(log[i].member)[k]
        f == Fields(log[i].member)[c]
    IN f.kind = "enum" =>
         /\ WhereValues(i)[k] = PyInt(f.start + PlaceInMember(i) - 1 + skipped)
         /\ txn.mem[log[i].member][PlaceInMember(i)][c]
              = PyInt(f.start + PlaceInMember(i) - 1 + skipped)

C30_EnumeratedKey ==
  res.op \in WriteOps =>
    \A i \in LogIdx :
      (IsWrite(i) /\ InSeq(log[i].member, RecordListNames) /\ NoWriteBefore(i))
        => NumberedFrom(i, 0)

\* An update or delete of an instance never inserted, whose second
\* RowCollection is empty: the rows of the first are addressed as s, s + 1
C30_Witness ==
  /\ res.op \in WriteOps /\ res.err = "none" /\ res.inserts = 0
  /\ txn.mem.l2 = << >>
  /\ \E i \in LogIdx :
       /\ IsWrite(i) /\ log[i].member = "l1"
       /\ PlaceInMember(i) = MaxRows
       /\ WhereValues(i)[2] = PyInt(StartingNumber + MaxRows - 1)

\* The first RowCollection shares the key of the second, which is written
\* first: its rows are numbered on from where the second stopped
ContinuedKey ==
  /\ res.op \in WriteOps /\ res.err = "none"
  /\ \E i \in LogIdx :
       /\ IsWrite(i) /\ log[i].member = "l1" /\ ~NoWriteBefore(i)
       /\ PlaceInMember(i) = 1
       /\ WhereValues(i)[2] = PyInt(StartingNumber + Len(txn.mem.l2))
====
